---- MODULE Spec2Model ----
(***************************************************************************)
(* Signalling and connection lifecycle of the drone video client           *)
(* (src/drone-app/main.py).  The client runs on one cooperative event      *)
(* loop: every handler is a task that runs atomically from one await to    *)
(* the next.  A task is a record holding the handler's position (pc) and   *)
(* its locals; one action of the model is one such atomic segment.         *)
(***************************************************************************)
EXTENDS Integers, Sequences, FiniteSets, TLC

VARIABLES
    now,                   \* time.time(), whole seconds
    sio_connected,         \* sio.connected
    peer_connection,       \* global peer_connection: 0 is None, else an index of pcs
    pcs,                   \* every RTCPeerConnection object created so far
    pending_remote_ice,    \* global pending_remote_ice (list of candidate payloads)
    user_stopped,          \* global user_stopped
    webrtc_restart_count,  \* global webrtc_restart_count
    last_restart_time,     \* global last_restart_time
    video_track,           \* global video_track: 0 is None, else an index of tracks
    tracks,                \* every ObjectDetectionStreamTrack object created so far
    detection_task,        \* the detection publisher: the track it was handed
    keepalive_task,        \* global keepalive_task (with stats_monitor_task)
    tasks,                 \* the event loop's tasks; task 0 is health_check
    out,                   \* what the last step did that an observer can see
    burst,                 \* the current burst of restart requests
    events,                \* number of external events delivered so far
    next_cand,             \* receipt number of the next candidate message
    phase,                 \* which environment drives the run (see Init, InitBudget)
    nms,                   \* one run of non-maximum suppression: input and result
    boot,                  \* main(): where it is, its retry counter, the camera
    onnx,                  \* one model output: its parsing and the detections
    camera,                \* the CameraManager: its fields, its thread, its callers
    monitors               \* the keepalive and stats tasks as objects, and the
                           \* handlers of the ICE state changes that stop and start them

vars == <<now, sio_connected, peer_connection, pcs, pending_remote_ice,
          user_stopped, webrtc_restart_count, last_restart_time, video_track,
          tracks, detection_task, keepalive_task,
          tasks, out, burst, events, next_cand, phase, nms, boot, onnx,
          camera, monitors>>

\* What the signalling handlers never touch.
aside == <<nms, boot, onnx, camera, monitors>>

----------------------------------------------------------------------------
(* Bounds of the model *)

MaxTasks == 3
MaxPC == 2
MaxCand == 3
MaxEvents == 5
MaxSteps == 2
MaxIceEvents == 5
MaxIceSteps == 1
MaxIceChanges == 5
MaxRestarts == 2
MaxSessionEvents == 4
MaxGather == 1
MaxBudgetEvents == 6
MaxBudgetSteps == 32
MaxDetections == 2
MaxLiveEvents == 3
MaxLivePC == 4
MaxLiveSteps == 2
MaxFrames == 4
MaxRecv == 6
MaxTrackEvents == 3
MaxBoxes == 3
MaxCoord == 2
MaxScore == 2
MaxAnchors == 6
MaxReads == 2
MaxShutdownEvents == 3
MaxOfferEvents == 4
MaxCopies == 2
MaxGatherEvents == 4
MaxCaptureEvents == 4
MaxGatherSteps == 7

(* Program constants *)

StartTime == 10
RESTART_WINDOW == 10
RESTART_LIMIT == 3
RESTART_COOLDOWN == 30
RESTART_DELAY == 1
HEALTH_INTERVAL == 30
ICE_GATHERING_TIMEOUT == 5
MIN_CANDIDATE_PARTS == 8
FRAME_BUFFER_SIZE == 3
DETECT_EVERY == 3
CAMERA_RETRIES == 3
CONNECT_RETRIES == 5
\* Confidence thresholds in hundredths: 0.05, 0.06, 0.03 (main.py 67-69) and
\* 0.5 (video_stream.py 190); the model input is 640 pixels wide (main.py 426)
DEFAULT_CONFIDENCE_THRESHOLD == 5
DEFAULT_EARTH_PERSON_THRESHOLD == 6
DEFAULT_SEA_PERSON_THRESHOLD == 3
TRACK_CONF_THRESHOLD == 50
INPUT_SIZE == 640
\* IoU thresholds as fractions: 0.5 (main.py 397) and 0.45 (video_stream.py 281)
NMS_IOU_NUM == 1
NMS_IOU_DEN == 2
TRACK_IOU_NUM == 9
TRACK_IOU_DEN == 20

DEFAULT_DEVICE_ID == "drone-camera"
device_id == DEFAULT_DEVICE_ID
DeviceIds == {DEFAULT_DEVICE_ID, "other-device"}

----------------------------------------------------------------------------
(* Data *)

\* A candidate payload: its receipt number and the number of whitespace
\* separated fields of its candidate string.
CandidateParts == {5, 8}

\* Parsing a candidate string (main.py 904-916, 820-827): fewer than 8 fields
\* raise ValueError (IndexError in the buffered path); otherwise the fields
\* are extracted and an RTCIceCandidate is built.
ParseCandidate(c) == c.parts >= MIN_CANDIDATE_PARTS

NewPC == [conn |-> "new", sig |-> "stable", local |-> FALSE, remote |-> FALSE,
          closed |-> FALSE, applied |-> <<>>, ice |-> "new",
          gathering |-> "new"]

Idle == [kind |-> "idle", pc |-> "-", wake |-> 0, tnow |-> 0, org |-> "-",
         p |-> 0, iter |-> <<>>, idx |-> 0, alias |-> FALSE,
         snap |-> <<>>, same |-> FALSE, cooled |-> FALSE, arg |-> "-",
         since |-> 0]

Task(kind, pc, org) == [Idle EXCEPT !.kind = kind, !.pc = pc, !.org = org]

HEALTH == 0
TaskIds == 0..MaxTasks

\* The observable effects of one step: a webrtc_offer emitted, a restart
\* request and whether it ran at once (attempt) or went to the cool-down
\* (deferred), a session object created, an answer handed to
\* setRemoteDescription with the session it was handed to, a candidate
\* message received, a drain loop that ended (the session whose remote
\* description started it, the buffer as it was then, and whether the
\* session and the buffer were left alone by every other handler since),
\* the device_id carried by an answer or candidate message delivered, the
\* counts of a detection_result emitted.
NoCand == [n |-> 0, parts |-> 0]
NoCounts == [earth_person_count |-> -1, sea_person_count |-> -1,
             person_count |-> -1]
\* No frame handed to the transport.
NoFrame == [pts |-> 0, frame |-> 0, waited |-> FALSE, text |-> "-",
            track |-> 0, overlay |-> 0]
NoDrain == [sess |-> 0, snap |-> <<>>, same |-> FALSE]
NoOut == [offer |-> FALSE, request |-> "-", attempt |-> FALSE, deferred |-> FALSE,
          created |-> FALSE, answer |-> "-", sess |-> 0, cand |-> NoCand,
          drained |-> NoDrain, dev |-> "-", published |-> NoCounts,
          by |-> "-", emitted |-> NoFrame, sampled |-> 0, halted |-> "-",
          stalled |-> FALSE, tick |-> 0, failed |-> FALSE,
          msg |-> "-", made |-> 0, had |-> 0, since |-> 0, arg |-> "-",
          ready |-> FALSE, results |-> <<>>, stale |-> 0]

World == [peer |-> peer_connection, pcs |-> pcs, pend |-> pending_remote_ice,
          stopped |-> user_stopped, count |-> webrtc_restart_count,
          last |-> last_restart_time, track |-> video_track, tasks |-> tasks,
          tracks |-> tracks, pub |-> detection_task, keep |-> keepalive_task,
          out |-> NoOut, burst |-> burst, ok |-> TRUE]

CommitGlobals(w) ==
    /\ w.ok
    /\ peer_connection' = w.peer
    /\ pcs' = w.pcs
    /\ pending_remote_ice' = w.pend
    /\ user_stopped' = w.stopped
    /\ webrtc_restart_count' = w.count
    /\ last_restart_time' = w.last
    /\ video_track' = w.track
    /\ tracks' = w.tracks
    /\ detection_task' = w.pub
    /\ keepalive_task' = w.keep
    /\ tasks' = w.tasks
    /\ out' = w.out
    /\ burst' = w.burst

Commit(w) == CommitGlobals(w) /\ UNCHANGED aside

FreeSlots(w) == {i \in 1..MaxTasks : w.tasks[i].kind = "idle"}

\* asyncio.ensure_future / start_background_task: a new task in a free slot.
Spawn(w, t) ==
    IF FreeSlots(w) = {} THEN [w EXCEPT !.ok = FALSE]
    ELSE LET i == CHOOSE k \in FreeSlots(w) : \A j \in FreeSlots(w) : k <= j
         IN [w EXCEPT !.tasks[i] = t]

Done(w, i) == [w EXCEPT !.tasks[i] = Idle]

\* Rebinding the global pending_remote_ice to a fresh list: a drain loop that
\* iterates the old list object no longer sees what is appended to the global.
RebindPending(w) ==
    [w EXCEPT !.pend = <<>>,
              !.tasks = [j \in TaskIds |->
                           [w.tasks[j] EXCEPT !.alias = FALSE, !.same = FALSE]]]

\* pending_remote_ice.append(c): visible through every alias of the list.
AppendPending(w, c) ==
    [w EXCEPT !.pend = Append(w.pend, c),
              !.tasks = [j \in TaskIds |->
                           IF w.tasks[j].alias
                           THEN [w.tasks[j] EXCEPT !.iter = Append(@, c)]
                           ELSE w.tasks[j]]]

\* Assigning the global peer_connection.
SetPeer(w, p) ==
    [w EXCEPT !.peer = p,
              !.tasks = [j \in TaskIds |-> [w.tasks[j] EXCEPT !.same = FALSE]]]

----------------------------------------------------------------------------
(* The aiortc session object, as main.py uses it *)

\* RTCPeerConnection.close(): a closed session returns at once; otherwise the
\* session becomes closed, which emits connectionstatechange (the emitter
\* schedules on_connectionstatechange as a task), and the caller is suspended
\* while the transports are torn down.
PcClose(w, p, org) ==
    IF w.pcs[p].closed THEN w
    ELSE Spawn([w EXCEPT !.pcs[p].closed = TRUE,
                         !.pcs[p].conn = "closed",
                         !.pcs[p].sig = "closed",
                         !.pcs[p].ice = "closed",
                         !.pcs[p].applied = <<>>,
                         !.tasks = [j \in TaskIds |->
                                      IF w.tasks[j].p = p
                                      THEN [w.tasks[j] EXCEPT !.same = FALSE]
                                      ELSE w.tasks[j]]],
               Task("statechange", "sc_start", org))

----------------------------------------------------------------------------
(* health_check: the tail of one iteration *)

HealthSleep(w, i) ==
    [w EXCEPT !.tasks[i] = [Task("health", "hc_sleep", "health")
                              EXCEPT !.wake = now + HEALTH_INTERVAL]]

\* asyncio.create_task(health_check()) (main.py 1202): the task is ready to
\* run its first round.
HealthStart(ts) ==
    [ts EXCEPT ![HEALTH] = [Task("health", "hc_sleep", "health") EXCEPT !.wake = now]]

NoTasks == [i \in TaskIds |-> Idle]

\* restart_webrtc returns to its caller: health_check goes on to its sleep
\* (video_track is never an inactive track: stop_webrtc and cleanup set it to
\* None in the segment that stops it), every other caller ends.
RestartReturn(w, i) == IF i = HEALTH THEN HealthSleep(w, i) ELSE Done(w, i)

----------------------------------------------------------------------------
(* create_offer and create_peer_connection *)

\* sio.emit('webrtc_offer', ...): raises when the bus is not connected, and
\* both callers catch and log that.
EmitOffer(w, i) ==
    IF sio_connected
    THEN [w EXCEPT !.out.offer = TRUE, !.out.by = w.tasks[i].org,
                   !.out.stale = Cardinality({k \in 1..Len(w.pend) :
                                                w.pend[k].n < w.tasks[i].since})]
    ELSE w

\* connect() after its offer (686-718): the GPS reader is restarted, and the
\* detection publisher is cancelled and started again with the track the
\* global video_track names at that moment.
ConnectTail(w, i) == Done([w EXCEPT !.pub = [started |-> TRUE, ref |-> w.track]], i)

\* create_offer raised: caught in restart_webrtc (393) or in connect (683).
OfferFailed(w, i) ==
    IF w.tasks[i].kind = "connect" THEN ConnectTail(w, i) ELSE RestartReturn(w, i)

\* create_offer returned the offer: it is emitted (388, 678).
OfferReady(w0, i) ==
    LET w == [w0 EXCEPT !.out.ready = TRUE] IN
    IF w.tasks[i].kind = "connect" THEN ConnectTail(EmitOffer(w, i), i)
    ELSE RestartReturn(EmitOffer(w, i), i)

\* create_offer 233-243: createOffer and setLocalDescription on the global
\* session, then the wait for ICE gathering.
OfferCreate(w, i) ==
    LET p == w.peer IN
    IF p = 0 \/ w.pcs[p].closed THEN OfferFailed(w, i)
    ELSE [w EXCEPT !.pcs[p].local = TRUE,
                   !.pcs[p].sig = "have-local-offer",
                   !.pcs[p].gathering = IF @ = "new" THEN "gathering" ELSE @,
                   !.out.made = p,
                   !.tasks[i].pc = "co_gather",
                   !.tasks[i].wake = now]

\* create_offer 239-249 once the wait is over: the loop and the return read
\* the global session, which may have been dropped or replaced meanwhile.
OfferGathered(w, i) ==
    IF w.peer = 0 \/ ~w.pcs[w.peer].local THEN OfferFailed(w, i)
    ELSE OfferReady(w, i)

\* webrtc_answer 812-861: the drain loop from list position k on.  A
\* candidate that fails to parse, or a missing session, raises inside the
\* loop's try and the loop goes on; an applied candidate suspends the task at
\* addIceCandidate.  After the loop the global is rebound to [].
RECURSIVE DrainFrom(_, _, _)
DrainFrom(w, i, k) ==
    LET t == w.tasks[i] IN
    IF k > Len(t.iter)
    THEN Done(RebindPending([w EXCEPT !.out.drained =
                 [sess |-> t.p, snap |-> t.snap, same |-> t.same]]), i)
    ELSE LET c == t.iter[k] IN
         IF ParseCandidate(c) /\ w.peer # 0
         THEN [w EXCEPT !.pcs[w.peer].applied = Append(@, c.n),
                        !.tasks = [j \in TaskIds |->
                                     IF j = i
                                     THEN [w.tasks[j] EXCEPT !.pc = "an_drain",
                                                             !.idx = k]
                                     ELSE [w.tasks[j] EXCEPT !.same = FALSE]]]
         ELSE DrainFrom(w, i, k + 1)

DrainStart_Mutant(w, i) ==
    IF w.pend = <<>> THEN Done(w, i)
    ELSE DrainFrom([w EXCEPT !.tasks[i].iter = w.pend,
                             !.tasks[i].alias = TRUE,
                             !.tasks[i].idx = 0], i, 2)

\* webrtc_answer 808-811: after setRemoteDescription returned.
DrainStart(w, i) ==
    IF w.pend = <<>> THEN Done(w, i)
    ELSE DrainFrom([w EXCEPT !.tasks[i].iter = w.pend,
                             !.tasks[i].alias = TRUE,
                             !.tasks[i].idx = 0], i, 1)

\* webrtc_answer 864-873: the except branch for an error that is not the
\* signalling race.
AnswerError(w, i) ==
    [w EXCEPT !.tasks[i].pc = "an_sleep", !.tasks[i].wake = now + RESTART_DELAY]

LogAnswer(w, p, res) == [w EXCEPT !.out.answer = res, !.out.sess = p]

\* No other webrtc_answer handler is in flight.
Alone(w, i) == \A j \in TaskIds : j # i => w.tasks[j].kind # "answer"

SetRemoteDescription_Mutant(w, i) ==
    LET p == w.peer IN
    IF w.tasks[i].arg = "bad" THEN AnswerError(LogAnswer(w, p, "error"), i)
    ELSE IF w.pcs[p].sig # "have-local-offer"
    THEN AnswerError(LogAnswer(w, p, "race"), i)
    ELSE [LogAnswer(w, p, "applied")
            EXCEPT !.pcs[p].remote = TRUE,
                   !.pcs[p].sig = "stable",
                   !.tasks[i].pc = "an_srd",
                   !.tasks[i].p = p,
                   !.tasks[i].snap = w.pend,
                   !.tasks[i].same = Alone(w, i)]

\* webrtc_answer 804-807 and 864-869: the answer is built from the message
\* (a message without sdp/type raises) and handed to setRemoteDescription,
\* which rejects it unless the session has an unanswered local offer; that
\* rejection is recognised by its message and ignored.
SetRemoteDescription(w, i) ==
    LET p == w.peer IN
    IF w.tasks[i].arg = "bad" THEN AnswerError(LogAnswer(w, p, "error"), i)
    ELSE IF w.pcs[p].sig # "have-local-offer"
    THEN Done(LogAnswer(w, p, "race"), i)
    ELSE [LogAnswer(w, p, "applied")
            EXCEPT !.pcs[p].remote = TRUE,
                   !.pcs[p].sig = "stable",
                   !.tasks[i].pc = "an_srd",
                   !.tasks[i].p = p,
                   !.tasks[i].snap = w.pend,
                   !.tasks[i].same = Alone(w, i)]

\* The sessions a run may create.
SessionBudget == IF phase \in {"live", "sessions"} THEN MaxLivePC ELSE MaxPC

\* A track object: whether it runs (stop() ends it) and the DetectionSet in
\* its cache, a list of the detections' classes.
NewTrack == [running |-> TRUE, cached_detections |-> <<>>,
             buffer |-> <<>>, captured |-> 0, counter |-> 0,
             recv |-> "idle", frame |-> 0,
             last_detection_data |-> 0,
             overlays |-> [f \in 1..MaxFrames |-> 0]]

\* video_track.stop() (video_stream.py 95-100).
StopTrack(w) ==
    IF w.track = 0 THEN w
    ELSE [w EXCEPT !.tracks[w.track].running = FALSE, !.track = 0]

\* The video track main.py constructs (184): the track class it is written
\* against takes detection_interval and owns the detection cache.
NewVideoTrack(w) ==
    IF w.track # 0 THEN w
    ELSE [w EXCEPT !.tracks = Append(@, NewTrack), !.track = Len(w.tracks) + 1]

\* create_peer_connection 116-220, after the old session is closed: a new
\* session object becomes the global, the track is created if there is none
\* and added to it.  Control then returns into create_offer or webrtc_answer.
NewPeerConnection(w, i, ret) ==
    IF Len(w.pcs) >= SessionBudget THEN [w EXCEPT !.ok = FALSE]
    ELSE LET w1 == NewVideoTrack(SetPeer([w EXCEPT !.pcs = Append(@, NewPC),
                                                   !.out.created = TRUE],
                                         Len(w.pcs) + 1))
         IN IF ret = "co" THEN OfferCreate(w1, i) ELSE SetRemoteDescription(w1, i)

\* create_peer_connection 112-114: close the existing session first.
create_peer_connection(w, i, ret) ==
    IF w.peer # 0 /\ ~w.pcs[w.peer].closed
    THEN [PcClose(w, w.peer, "replace")
            EXCEPT !.tasks[i].pc = IF ret = "co" THEN "co_close" ELSE "an_close"]
    ELSE NewPeerConnection(w, i, ret)

Unusable(w) == w.peer = 0 \/ w.pcs[w.peer].conn \in {"closed", "failed"}

\* A create_offer that replaces only a missing or closed session.
create_offer_Mutant(w, i) ==
    IF w.peer = 0 \/ w.pcs[w.peer].closed THEN create_peer_connection(w, i, "co")
    ELSE OfferCreate(w, i)

\* create_offer 227-234.
create_offer(w, i) ==
    IF Unusable(w) THEN create_peer_connection(w, i, "co") ELSE OfferCreate(w, i)

----------------------------------------------------------------------------
(* restart_webrtc *)

\* A restart request arrives at restart_webrtc: who asked, and the how
\* manieth it is of the requests made within one window of the first of
\* them, the count it finds and the time since the last attempt was made.
Requested(w, i) ==
    [w EXCEPT !.out.request = w.tasks[i].org,
              !.out.had = w.count,
              !.out.since = now - w.burst.at,
              !.burst = IF @.n > 0 /\ now - @.start < RESTART_WINDOW
                        THEN [@ EXCEPT !.n = IF @ > RESTART_LIMIT THEN @ ELSE @ + 1]
                        ELSE [@ EXCEPT !.start = now, !.n = 1]]

\* restart_webrtc 376-392: the attempt itself.
RestartAttempt(w, i, t) ==
    create_offer(RebindPending([w EXCEPT !.last = t, !.out.attempt = TRUE,
                                         !.burst.at = now,
                                         !.tasks[i].since = next_cand]), i)

\* A rate limit that keeps the count when the window has elapsed.
RateLimit_Mutant(w0, i) ==
    LET w == Requested(w0, i) IN
    IF now - w.last < RESTART_WINDOW \/ w.count >= RESTART_LIMIT
    THEN LET c == w.count + 1 IN
         IF c > RESTART_LIMIT
         THEN [w EXCEPT !.count = c,
                        !.out.deferred = TRUE,
                        !.tasks[i].pc = "rs_cool",
                        !.tasks[i].wake = now + RESTART_COOLDOWN,
                        !.tasks[i].tnow = now]
         ELSE RestartAttempt([w EXCEPT !.count = c], i, now)
    ELSE RestartAttempt(w, i, now)

\* restart_webrtc 364-375: the rate limit.  `now` is read once, before the
\* cool-down sleep.
RateLimit(w0, i) ==
    LET w == Requested(w0, i) IN
    IF now - w.last < RESTART_WINDOW
    THEN LET c == w.count + 1 IN
         IF c > RESTART_LIMIT
         THEN [w EXCEPT !.count = c,
                        !.out.deferred = TRUE,
                        !.tasks[i].pc = "rs_cool",
                        !.tasks[i].wake = now + RESTART_COOLDOWN,
                        !.tasks[i].tnow = now]
         ELSE RestartAttempt([w EXCEPT !.count = c], i, now)
    ELSE RestartAttempt([w EXCEPT !.count = 0], i, now)

\* keepalive_task and not keepalive_task.done() (337, 346).
KeepaliveActive(w) == w.keep \in {"created", "running"}

\* stop_keepalive 334-354: tasks that are not done are cancelled and
\* awaited, which suspends the caller at pc; with none it returns at once.
stop_keepalive(w, i, pc) ==
    [w EXCEPT !.keep = "cancelled", !.tasks[i].pc = pc]

\* restart_webrtc 357-394 up to its first suspension: stop_keepalive (362),
\* then the rate limit.
restart_webrtc(w0, i) ==
    LET w == [w0 EXCEPT !.out.halted = w0.tasks[i].org] IN
    IF KeepaliveActive(w) THEN stop_keepalive(w, i, "rs_keep") ELSE RateLimit(w, i)

RestartAfterCooldown_Mutant(w, i) ==
    RestartAttempt([w EXCEPT !.tasks[i].cooled = TRUE], i, w.tasks[i].tnow)

\* restart_webrtc 371-376: after the cool-down sleep.
RestartAfterCooldown(w, i) ==
    RestartAttempt([w EXCEPT !.count = 0, !.tasks[i].cooled = TRUE],
                   i, w.tasks[i].tnow)

----------------------------------------------------------------------------
(* Socket.IO handlers: the segment that runs when the message arrives *)

NewSlot(w) == CHOOSE k \in FreeSlots(w) : \A j \in FreeSlots(w) : k <= j

\* A start_webrtc that does not look at the device_id.
start_webrtc_Mutant(w, dev) ==
    LET i == NewSlot(w) IN
    restart_webrtc(Spawn([w EXCEPT !.stopped = FALSE],
                         Task("start", "rs_gate", "start")), i)

\* start_webrtc 742-757.
start_webrtc(w, dev) ==
    IF dev # device_id THEN w
    ELSE LET i == NewSlot(w) IN
         restart_webrtc(Spawn([w EXCEPT !.stopped = FALSE],
                              Task("start", "rs_gate", "start")), i)

\* start_keepalive 326-329: keepalive_ping and stats_monitor are created.
start_keepalive(w, i) == Done([w EXCEPT !.keep = "created"], i)

\* on_iceconnectionstatechange 140-167: reads the global session's ICE
\* state; start_keepalive stops the running tasks first (257).
on_iceconnectionstatechange(w, i) ==
    IF w.peer = 0 THEN Done(w, i)
    ELSE IF w.pcs[w.peer].ice \in {"connected", "completed"}
    THEN IF KeepaliveActive(w) THEN stop_keepalive(w, i, "ic_keep")
         ELSE start_keepalive(w, i)
    ELSE IF w.pcs[w.peer].ice \in {"failed", "disconnected"}
    THEN LET w1 == [w EXCEPT !.out.halted = "ice"] IN
         IF KeepaliveActive(w1) THEN stop_keepalive(w1, i, "ic_stop")
         ELSE Done(w1, i)
    ELSE Done(w, i)

\* The caller of stop_keepalive resumes: the globals are set to None
\* (342, 351) and the caller goes on.
keepalive_stopped(w, i) ==
    LET w1 == [w EXCEPT !.keep = "none"] IN
    CASE w.tasks[i].pc = "rs_keep" -> RateLimit(w1, i)
      [] w.tasks[i].pc = "ic_keep" -> start_keepalive(w1, i)
      [] OTHER -> Done(w1, i)

\* Loops that sample whatever session is there.
keepalive_round_Mutant(w) ==
    IF w.peer = 0 THEN [w EXCEPT !.keep = "done"]
    ELSE [w EXCEPT !.keep = "running", !.out.sampled = w.peer]

\* keepalive_ping 262-279 and stats_monitor 287-323, one round: the loops
\* end when there is no session or its state is not "connected"; otherwise
\* the states and the statistics of the global session are read and logged.
keepalive_round(w) ==
    IF w.peer = 0 THEN [w EXCEPT !.keep = "done"]
    ELSE IF w.pcs[w.peer].conn # "connected" THEN [w EXCEPT !.keep = "done"]
    ELSE [w EXCEPT !.keep = "running", !.out.sampled = w.peer]

\* A stats_monitor that restarts the stream when nothing was sent.
stats_monitor_Mutant(w, bytes_delta) ==
    LET w1 == keepalive_round(w) IN
    IF w1.out.sampled # 0 /\ bytes_delta = 0 /\ FreeSlots(w1) # {}
    THEN restart_webrtc(Spawn([w1 EXCEPT !.out.stalled = TRUE],
                              Task("monitor", "rs_gate", "monitor")), NewSlot(w1))
    ELSE w1

\* stats_monitor 293-318: the bytes sent since the last round; none sent is
\* logged as a warning (314) and the loop goes on.
stats_monitor(w, bytes_delta) ==
    LET w1 == keepalive_round(w) IN
    [w1 EXCEPT !.out.stalled = (w1.out.sampled # 0 /\ bytes_delta = 0)]

\* stop_webrtc 786-790 once close() has returned.
StopClosed(w, i) == Done(SetPeer(w, 0), i)

\* stop_webrtc 761-792.
stop_webrtc(w, dev) ==
    IF dev # device_id THEN w
    ELSE LET i == NewSlot(w)
             w1 == Spawn(StopTrack([w EXCEPT !.stopped = TRUE,
                                             !.out.halted = "stop",
                                             !.keep = IF KeepaliveActive(w)
                                                      THEN "none" ELSE @]),
                         Task("stop", "st_close", "stop"))
         IN IF w.peer = 0 THEN Done(w1, i)
            ELSE IF w.pcs[w.peer].closed THEN StopClosed(w1, i)
            ELSE PcClose(w1, w.peer, "stop")

\* webrtc_answer 796-806.
webrtc_answer(w, a) ==
    LET i == NewSlot(w)
        w1 == Spawn(w, [Task("answer", "an_start", "answer") EXCEPT !.arg = a])
    IN IF Unusable(w1) THEN create_peer_connection(w1, i, "an")
       ELSE SetRemoteDescription(w1, i)

webrtc_ice_candidate_Mutant(w, c) ==
    IF w.peer = 0 THEN AppendPending(w, c)
    ELSE IF ParseCandidate(c)
    THEN [w EXCEPT !.pcs[w.peer].applied = Append(@, c.n)]
    ELSE AppendPending(w, c)

\* webrtc_ice_candidate 877-966: buffered while there is no session or no
\* remote description; otherwise parsed and applied, and buffered when that
\* raises.
webrtc_ice_candidate(w, c) ==
    IF w.peer = 0 \/ ~w.pcs[w.peer].remote THEN AppendPending(w, c)
    ELSE IF ParseCandidate(c)
    THEN [w EXCEPT !.pcs[w.peer].applied = Append(@, c.n)]
    ELSE AppendPending(w, c)

\* A candidate message arrives.
ReceiveCandidate(w, c) == webrtc_ice_candidate([w EXCEPT !.out.cand = c], c)

\* A handler that logs the state and returns.
on_connectionstatechange_Mutant(w, i) == Done(w, i)

\* on_connectionstatechange 129-137: reads the global session's state.
on_connectionstatechange(w, i) ==
    IF w.peer = 0 THEN Done(w, i)
    ELSE IF w.pcs[w.peer].conn \in {"failed", "closed"}
    THEN [w EXCEPT !.tasks[i].pc = "sc_sleep",
                   !.tasks[i].wake = now + RESTART_DELAY]
    ELSE Done(w, i)

\* video_track and not video_track.is_active() (1088; video_stream.py 91-93,
\* where stop() clears the flag).
TrackInactive(w) == IF w.track = 0 THEN FALSE ELSE ~w.tracks[w.track].running

\* health_check 1076-1095: one iteration.
health_check(w) ==
    IF w.stopped THEN HealthSleep(w, HEALTH)
    ELSE IF w.peer # 0 /\ w.pcs[w.peer].conn \notin {"connected", "connecting"}
    THEN restart_webrtc(w, HEALTH)
    ELSE IF TrackInactive(w) THEN restart_webrtc(w, HEALTH)
    ELSE HealthSleep(w, HEALTH)

----------------------------------------------------------------------------
(* The environment *)

EventBudget ==
    CASE phase = "budget" -> MaxBudgetEvents
      [] phase = "ice" -> MaxIceEvents
      [] phase = "live" -> MaxLiveEvents
      [] phase = "track" -> MaxTrackEvents
      [] phase = "shutdown" -> MaxShutdownEvents
      [] phase = "offer" -> MaxOfferEvents
      [] phase = "gather" -> MaxGatherEvents
      [] phase = "capture" -> MaxCaptureEvents
      [] phase = "sessions" -> MaxSessionEvents
      [] OTHER -> MaxEvents

Horizon ==
    StartTime + (CASE phase = "budget" -> MaxBudgetSteps
                   [] phase = "ice" -> MaxIceSteps
                   [] phase = "live" -> MaxLiveSteps
                   [] phase = "gather" -> MaxGatherSteps
                   [] OTHER -> MaxSteps)

\* A handler the emitter has just scheduled runs before the next message
\* is read from the bus.
Env == /\ events < EventBudget
       /\ boot.pc # "ended"
       /\ \A i \in TaskIds : tasks[i].pc # "sc_start"
       /\ events' = events + 1
       /\ UNCHANGED <<now, phase>>

Internal == boot.pc # "ended" /\ UNCHANGED <<now, phase, events, next_cand, sio_connected>>

\* connect 654-684: register_video_device is emitted (an emit queues the
\* packet and does not suspend), then the offer is created.
connect(w) ==
    LET i == NewSlot(w) IN
    create_offer(Spawn(w, [Task("connect", "cn_start", "connect")
                             EXCEPT !.since = next_cand]), i)

\* The bus (re)connects and the connect handler runs.
BusConnect ==
    /\ ~sio_connected
    /\ sio_connected' = TRUE
    /\ FreeSlots(World) # {}
    /\ Commit(connect(World))
    /\ Env /\ UNCHANGED next_cand

\* The bus drops: disconnect() (723-730) only cancels the GPS reader.
BusDisconnect ==
    /\ sio_connected
    /\ sio_connected' = FALSE
    /\ Commit(World)
    /\ Env /\ UNCHANGED next_cand

\* A message reaches its handler: the device_id it carries.  The server
\* broadcasts every signalling message to every client but its sender
\* (web-app video_controller.py 44-55, 81-92).
Delivered(w, dev) == [w EXCEPT !.out.dev = dev]

RecvStart ==
    \E dev \in DeviceIds :
        /\ sio_connected
        /\ FreeSlots(World) # {}
        /\ Commit(Delivered(start_webrtc([World EXCEPT !.out.msg = "start_webrtc"],
                                          dev), dev))
        /\ Env /\ UNCHANGED <<next_cand, sio_connected>>

RecvStop ==
    \E dev \in DeviceIds :
        /\ sio_connected
        /\ FreeSlots(World) # {}
        /\ Commit(Delivered(stop_webrtc([World EXCEPT !.out.msg = "stop_webrtc"],
                                         dev), dev))
        /\ Env /\ UNCHANGED <<next_cand, sio_connected>>

\* A handler that takes the remote offer: the session is closed for a new
\* negotiation.
webrtc_offer_Mutant(w, data) ==
    IF w.peer = 0 THEN w ELSE PcClose(w, w.peer, "offer")

\* webrtc_offer 732-738: the message is logged.
webrtc_offer(w, data) == w

\* A webrtc_offer of the remote peer arrives.
RecvOffer ==
    \E data \in {"offer"}, dev \in DeviceIds :
        /\ sio_connected
        /\ Commit(Delivered(webrtc_offer([World EXCEPT !.out.msg = "webrtc_offer"],
                                         data), dev))
        /\ Env /\ UNCHANGED <<next_cand, sio_connected>>

RecvAnswer ==
    \E a \in {"ok", "bad"}, dev \in DeviceIds :
        /\ sio_connected
        /\ FreeSlots(World) # {}
        /\ Commit(Delivered(webrtc_answer([World EXCEPT !.out.msg = "webrtc_answer",
                                                         !.out.arg = a], a), dev))
        /\ Env /\ UNCHANGED <<next_cand, sio_connected>>

RecvCandidate ==
    \E parts \in CandidateParts, dev \in DeviceIds :
        /\ sio_connected
        /\ next_cand <= MaxCand
        /\ Commit(Delivered(ReceiveCandidate(World, [n |-> next_cand,
                                                    parts |-> parts]), dev))
        /\ next_cand' = next_cand + 1
        /\ Env /\ UNCHANGED sio_connected

\* The transport reports a new connection state of a live session.
TransportStates(from) ==
    CASE from = "new" -> {"connecting"}
      [] from = "connecting" -> {"connected", "failed"}
      [] from = "connected" -> {"failed"}
      [] OTHER -> {}

\* A session is connected once its ICE transport has completed and the
\* DTLS handshake is done; where the ICE transport is not followed it is
\* taken to have completed.
IceDone(p) == IF phase \in {"keep", "monitor"} THEN pcs[p].ice = "completed" ELSE TRUE

TransportEvent ==
    \E p \in 1..Len(pcs) : \E s \in TransportStates(pcs[p].conn) :
        /\ ~pcs[p].closed
        /\ pcs[p].local
        /\ s = "connected" => IceDone(p)
        /\ Commit(Spawn([World EXCEPT !.pcs[p].conn = s],
                        Task("statechange", "sc_start", "transport")))
        /\ Env /\ UNCHANGED <<next_cand, sio_connected>>

\* The ICE transport of a connecting session that has the remote
\* description completes; the emitter
\* schedules on_iceconnectionstatechange.
IceCompleted ==
    \E p \in 1..Len(pcs) :
        /\ ~pcs[p].closed
        /\ pcs[p].conn = "connecting"
        /\ pcs[p].remote
        /\ pcs[p].ice = "new"
        /\ Commit(Spawn([World EXCEPT !.pcs[p].ice = "completed"],
                        Task("icechange", "sc_start", "ice")))
        /\ Env /\ UNCHANGED <<next_cand, sio_connected>>

\* The ICE transport of a session that had completed reports a loss: the
\* ICE state and the connection state derived from it change, and the
\* emitter schedules both handlers.
IceLost ==
    \E p \in 1..Len(pcs) : \E s \in {"failed", "disconnected"} :
        /\ ~pcs[p].closed
        /\ pcs[p].ice = "completed"
        /\ pcs[p].conn \in {"connecting", "connected"}
        /\ Commit(Spawn(Spawn([World EXCEPT !.pcs[p].ice = s, !.pcs[p].conn = s],
                              Task("icechange", "sc_start", "ice")),
                        Task("statechange", "sc_start", "transport")))
        /\ Env /\ UNCHANGED <<next_cand, sio_connected>>

----------------------------------------------------------------------------
(* The event loop resumes a task *)

At(i, pc) == tasks[i].pc = pc
Woken(i) == tasks[i].wake <= now

HealthCheck ==
    /\ At(HEALTH, "hc_sleep") /\ Woken(HEALTH)
    /\ Commit(health_check(World)) /\ Internal

StateChange ==
    \E i \in 1..MaxTasks :
        /\ At(i, "sc_start") /\ tasks[i].kind = "statechange"
        /\ Commit(on_connectionstatechange(World, i)) /\ Internal

IceStateChange ==
    \E i \in 1..MaxTasks :
        /\ At(i, "sc_start") /\ tasks[i].kind = "icechange"
        /\ Commit(on_iceconnectionstatechange(World, i)) /\ Internal

KeepaliveStopped ==
    \E i \in 1..MaxTasks :
        /\ tasks[i].pc \in {"rs_keep", "ic_keep", "ic_stop"}
        /\ Commit(keepalive_stopped(World, i)) /\ Internal

\* The keepalive and stats tasks run a round of their loops.
KeepaliveRound ==
    \E bytes_delta \in 0..1 :
        /\ keepalive_task \in {"created", "running"}
        /\ stats_monitor(World, bytes_delta) # World
        /\ Commit(stats_monitor(World, bytes_delta)) /\ Internal

StateChangeRestart ==
    \E i \in 1..MaxTasks :
        /\ At(i, "sc_sleep") /\ Woken(i)
        /\ Commit(restart_webrtc(World, i)) /\ Internal

AnswerRestart ==
    \E i \in 1..MaxTasks :
        /\ At(i, "an_sleep") /\ Woken(i)
        /\ Commit(restart_webrtc(World, i)) /\ Internal

CooldownOver ==
    \E i \in TaskIds :
        /\ At(i, "rs_cool") /\ Woken(i)
        /\ Commit(RestartAfterCooldown(World, i)) /\ Internal

CloseReturned ==
    \E i \in TaskIds :
        /\ tasks[i].pc \in {"co_close", "an_close"}
        /\ Commit(NewPeerConnection(World, i,
                                    IF At(i, "co_close") THEN "co" ELSE "an"))
        /\ Internal

StopCloseReturned ==
    \E i \in 1..MaxTasks :
        /\ At(i, "st_close")
        /\ Commit(StopClosed(World, i)) /\ Internal

\* The wait in create_offer ends when the global session reports gathering
\* complete (it can once it has a local description), when reading the
\* global raises (no session), or on the timeout.
\* Where the gathering itself is followed, the wait ends when the global
\* session's iceGatheringState is "complete" (239).
GatherMayComplete ==
    IF peer_connection = 0 THEN TRUE
    ELSE IF phase = "gather" THEN pcs[peer_connection].gathering = "complete"
    ELSE pcs[peer_connection].local

\* The ICE agent of a session finishes gathering its local candidates.
GatheringComplete ==
    \E p \in 1..Len(pcs) :
        /\ ~pcs[p].closed
        /\ pcs[p].gathering = "gathering"
        /\ Commit([World EXCEPT !.pcs[p].gathering = "complete"]) /\ Internal

GatherTimedOut(i) == now - tasks[i].wake > ICE_GATHERING_TIMEOUT

Gathered ==
    \E i \in TaskIds :
        /\ At(i, "co_gather")
        /\ IF GatherMayComplete THEN TRUE ELSE GatherTimedOut(i)
        /\ Commit(OfferGathered(World, i)) /\ Internal

RemoteDescriptionSet ==
    \E i \in 1..MaxTasks :
        /\ At(i, "an_srd")
        /\ Commit(DrainStart(World, i)) /\ Internal

CandidateAdded ==
    \E i \in 1..MaxTasks :
        /\ At(i, "an_drain")
        /\ Commit(DrainFrom(World, i, tasks[i].idx + 1)) /\ Internal

Sleeping(t) == t.pc \in {"sc_sleep", "an_sleep", "rs_cool", "hc_sleep"}

\* A task other than the sleeping health check is in flight.
Pending ==
    \/ tasks[HEALTH].pc # "hc_sleep"
    \/ \E i \in 1..MaxTasks : tasks[i].pc # "-"

\* The clock of a run stops at the horizon; where progress is the question
\* it goes on for as long as a task is waiting for it.
TimeLeft == IF phase = "live" THEN now < Horizon \/ Pending ELSE now < Horizon

\* Time passes, a second at a time.  A sleeper whose time has come runs
\* first; a ready handler and the short awaits (close(),
\* setRemoteDescription, addIceCandidate) finish within the second, and ICE
\* gathering within MaxGather seconds.
Tick ==
    /\ TimeLeft
    /\ \A i \in TaskIds :
          /\ Sleeping(tasks[i]) => ~Woken(i)
          /\ At(i, "co_gather") =>
                IF GatherMayComplete THEN now - tasks[i].wake < MaxGather
                ELSE ~GatherTimedOut(i)
          /\ tasks[i].pc \in {"-", "co_gather"} \/ Sleeping(tasks[i])
    /\ now' = now + 1
    /\ out' = NoOut
    /\ UNCHANGED <<sio_connected, peer_connection, pcs, pending_remote_ice,
                   user_stopped, webrtc_restart_count, last_restart_time,
                   video_track, tracks, detection_task, keepalive_task,
                   tasks, burst, events, next_cand, phase, aside>>

----------------------------------------------------------------------------
(* The detection publisher *)

Classes == {0, 1}

\* The DetectionSets a detection pass can leave in the cache.
DetectionSets ==
    UNION {[1..n -> Classes] : n \in 0..MaxDetections}

\* detection_publisher_loop 605-622: the detections are read from the track
\* the loop was handed when it was created, and counted by class.
PublisherDetections ==
    IF detection_task.ref = 0 THEN <<>>
    ELSE tracks[detection_task.ref].cached_detections

CountClass(ds, c) == Cardinality({k \in 1..Len(ds) : ds[k] = c})

PublisherCounts ==
    LET earth == CountClass(PublisherDetections, 0)
        sea == CountClass(PublisherDetections, 1)
    IN [earth_person_count |-> earth, sea_person_count |-> sea,
        person_count |-> earth + sea]

\* One round of detection_publisher_loop with the bus connected (597-638).
Publish ==
    /\ detection_task.started
    /\ sio_connected
    /\ out' = [NoOut EXCEPT !.published = PublisherCounts]
    /\ UNCHANGED <<now, sio_connected, peer_connection, pcs, pending_remote_ice,
                   user_stopped, webrtc_restart_count, last_restart_time,
                   video_track, tracks, detection_task, keepalive_task,
                   tasks, burst, events, next_cand, phase, aside>>

\* The detection worker of a running track swaps a new DetectionSet into
\* the track's cache.
DetectionWorker ==
    \E k \in 1..Len(tracks) : \E ds \in DetectionSets :
        /\ tracks[k].running
        /\ tracks[k].cached_detections # ds
        /\ tracks' = [tracks EXCEPT ![k].cached_detections = ds]
        /\ out' = NoOut
        /\ UNCHANGED <<now, sio_connected, peer_connection, pcs,
                       pending_remote_ice, user_stopped, webrtc_restart_count,
                       last_restart_time, video_track, detection_task,
                       keepalive_task,
                       tasks, burst, events, next_cand, phase, aside>>

----------------------------------------------------------------------------
(* The video track (video_stream.py) *)

\* The detection model was loaded at start-up.
ort_session == TRUE

\* FrameBuffer.add_frame 30-34.
add_frame(buffer, frame) ==
    LET b == Append(buffer, frame)
    IN IF Len(b) > FRAME_BUFFER_SIZE THEN Tail(b) ELSE b

\* FrameBuffer.get_latest_frame 36-40; 0 stands for None.
get_latest_frame(buffer) == IF buffer = <<>> THEN 0 ELSE buffer[Len(buffer)]

\* recv 142-150: the frame is handed to the caller, with what has been
\* drawn on it.
Emit(w, k, frame, waited) ==
    [w EXCEPT !.tracks[k].recv = "idle",
              !.tracks[k].frame = 0,
              !.out.emitted = [pts |-> w.tracks[k].counter, frame |-> frame,
                               waited |-> waited,
                               text |-> IF frame = 0 THEN "Camera Error" ELSE "-",
                               track |-> k,
                               overlay |-> IF frame = 0 THEN 0
                                           ELSE w.tracks[k].overlays[frame]]]

\* A detect_objects that clears its result when the model raises.
detect_objects_Mutant(w, k, raised) ==
    LET frame == w.tracks[k].frame
        n == w.tracks[k].counter IN
    IF raised
    THEN Emit([w EXCEPT !.out.failed = TRUE,
                        !.tracks[k].last_detection_data = 0], k, frame, TRUE)
    ELSE Emit([w EXCEPT !.tracks[k].overlays[frame] = n,
                        !.tracks[k].last_detection_data = n], k, frame, TRUE)

\* detect_objects 153-279 from the return of ort_session.run on, and the
\* rest of recv: the boxes and the summary are drawn on the frame it was
\* given (213-254) and the result is kept in last_detection_data (270); an
\* exception is caught and the frame is returned as it is (275-279).  A
\* detection result is named by the counter of the call that produced it.
detect_objects(w, k, raised) ==
    LET frame == w.tracks[k].frame
        n == w.tracks[k].counter IN
    IF raised THEN Emit([w EXCEPT !.out.failed = TRUE], k, frame, TRUE)
    ELSE Emit([w EXCEPT !.tracks[k].overlays[frame] = n,
                        !.tracks[k].last_detection_data = n], k, frame, TRUE)

\* A recv that returns nothing when the buffer is empty.
recv_frame_Mutant(w0, k) ==
    LET w == [w0 EXCEPT !.out.tick = k]
        frame == get_latest_frame(w.tracks[k].buffer) IN
    IF frame = 0 THEN [w EXCEPT !.tracks[k].recv = "idle"]
    ELSE IF ort_session /\ w.tracks[k].counter % DETECT_EVERY = 0
    THEN [w EXCEPT !.tracks[k].recv = "inferring", !.tracks[k].frame = frame]
    ELSE Emit(w, k, frame, FALSE)

\* recv 114-140: the latest frame, or a blank one with the text "Camera
\* Error" (117-128); on every third call with a frame, detect_objects runs
\* the model inside recv (163-176).
recv_frame(w0, k) ==
    LET w == [w0 EXCEPT !.out.tick = k]
        frame == get_latest_frame(w.tracks[k].buffer) IN
    IF frame = 0 THEN Emit(w, k, 0, FALSE)
    ELSE IF ort_session /\ w.tracks[k].counter % DETECT_EVERY = 0
    THEN [w EXCEPT !.tracks[k].recv = "inferring", !.tracks[k].frame = frame]
    ELSE Emit(w, k, frame, FALSE)

\* recv 103-112: the counter, then the pacing sleep when the call is early.
recv(w, k, early) ==
    LET w1 == [w EXCEPT !.tracks[k].counter = @ + 1] IN
    IF early THEN [w1 EXCEPT !.tracks[k].recv = "pacing"] ELSE recv_frame(w1, k)

\* The event loop is not inside a blocking call.
LoopFree == \A k \in 1..Len(tracks) : tracks[k].recv # "inferring"

TrackOnly == UNCHANGED <<now, sio_connected, events, next_cand, phase>>

\* _capture_frames 73-85: the capture thread reads a frame and buffers it.
CaptureFrame ==
    \E k \in 1..Len(tracks) :
        /\ tracks[k].running
        /\ tracks[k].captured < MaxFrames
        /\ Commit([World EXCEPT !.tracks[k].captured = @ + 1,
                                !.tracks[k].buffer =
                                    add_frame(@, tracks[k].captured + 1)])
        /\ TrackOnly

\* The RTP sender of the session asks the attached track for a frame.
SenderRecv ==
    \E early \in BOOLEAN :
        /\ video_track # 0
        /\ tracks[video_track].recv = "idle"
        /\ tracks[video_track].counter < MaxRecv
        /\ Commit(recv(World, video_track, early))
        /\ TrackOnly

PacingOver ==
    \E k \in 1..Len(tracks) :
        /\ tracks[k].recv = "pacing"
        /\ Commit(recv_frame(World, k))
        /\ TrackOnly

\* ort_session.run returns inside detect_objects and recv goes on.
InferenceDone ==
    \E k \in 1..Len(tracks) : \E raised \in BOOLEAN :
        /\ tracks[k].recv = "inferring"
        /\ Commit(detect_objects(World, k, raised))
        /\ TrackOnly

----------------------------------------------------------------------------
(* Non-maximum suppression *)

Max(a, b) == IF a >= b THEN a ELSE b
Min(a, b) == IF a <= b THEN a ELSE b

NoNms == [fmt |-> "-", dets |-> <<>>, by |-> "-", keep |-> <<>>]

\* Corner boxes <<x1, y1, x2, y2>> as parse_onnx_detections builds them
\* (main.py 480-483), and centre boxes <<cx, cy, w, h>> as detect_objects
\* takes them from the model output (video_stream.py 184), with even
\* widths and heights, so that w/2 and h/2 are exact.
CornerBoxes ==
    {b \in (0..MaxCoord) \X {0} \X (0..MaxCoord) \X (0..1) : b[1] <= b[3]}

CentreBoxes == {<<cx, 0, w, 2>> : cx \in 0..MaxCoord, w \in {0, 2, 4}}

Scores == 1..MaxScore

Detections(boxes) ==
    UNION {[1..n -> [box : boxes, score : Scores]] : n \in 0..MaxBoxes}

\* The candidates taken in the order they were given.
ArgsortReversed_Mutant(dets, left) == [n \in 1..Len(dets) |-> n]

\* scores.argsort()[::-1] (main.py 408): ascending and stable for arrays
\* this short, then reversed, so that among equal scores the later index
\* comes first.
RECURSIVE ArgsortReversed(_, _)
ArgsortReversed(dets, left) ==
    IF left = {} THEN <<>>
    ELSE LET i == CHOOSE i \in left : \A j \in left :
                      \/ dets[i].score > dets[j].score
                      \/ dets[i].score = dets[j].score /\ i >= j
         IN <<i>> \o ArgsortReversed(dets, left \ {i})

\* main.py 407: areas = (x2 - x1 + 1) * (y2 - y1 + 1)
areas(b) == (b[3] - b[1] + 1) * (b[4] - b[2] + 1)

\* main.py 413-419: the intersection of box a with box b.
inter(a, b) ==
    LET w == Max(0, Min(a[3], b[3]) - Max(a[1], b[1]) + 1)
        h == Max(0, Min(a[4], b[4]) - Max(a[2], b[2]) + 1)
    IN w * h

\* Every box stays.
Stays_Mutant(a, b) == TRUE

\* main.py 420-421: ovr <= iou_threshold, the boxes that stay in the order.
Stays(a, b) ==
    inter(a, b) * NMS_IOU_DEN <= NMS_IOU_NUM * (areas(a) + areas(b) - inter(a, b))

\* main.py 410-422: the loop of _nms_boxes.
RECURSIVE NmsLoop(_, _, _)
NmsLoop(dets, order, keep) ==
    IF order = <<>> THEN keep
    ELSE LET i == Head(order)
             Kept(j) == Stays(dets[i].box, dets[j].box)
         IN NmsLoop(dets, SelectSeq(Tail(order), Kept), Append(keep, i))

\* _nms_boxes (main.py 397-423): the indices kept.
nms_boxes(dets) ==
    IF Len(dets) = 0 THEN <<>>
    ELSE NmsLoop(dets, ArgsortReversed(dets, 1..Len(dets)), <<>>)

\* sorted(detections, key=confidence, reverse=True) (video_stream.py 287):
\* stable, equal scores keep their order.
RECURSIVE SortedReverse(_, _)
SortedReverse(dets, left) ==
    IF left = {} THEN <<>>
    ELSE LET i == CHOOSE i \in left : \A j \in left :
                      \/ dets[i].score > dets[j].score
                      \/ dets[i].score = dets[j].score /\ i <= j
         IN <<i>> \o SortedReverse(dets, left \ {i})

\* compute_iou (video_stream.py 303-332) as the fraction num/den.
compute_iou(box1, box2) ==
    LET b1_x1 == box1[1] - box1[3] \div 2
        b1_y1 == box1[2] - box1[4] \div 2
        b1_x2 == box1[1] + box1[3] \div 2
        b1_y2 == box1[2] + box1[4] \div 2
        b2_x1 == box2[1] - box2[3] \div 2
        b2_y1 == box2[2] - box2[4] \div 2
        b2_x2 == box2[1] + box2[3] \div 2
        b2_y2 == box2[2] + box2[4] \div 2
        inter_x1 == Max(b1_x1, b2_x1)
        inter_y1 == Max(b1_y1, b2_y1)
        inter_x2 == Min(b1_x2, b2_x2)
        inter_y2 == Min(b1_y2, b2_y2)
        inter_area == (inter_x2 - inter_x1) * (inter_y2 - inter_y1)
        union_area == box1[3] * box1[4] + box2[3] * box2[4] - inter_area
    IN IF inter_x2 < inter_x1 \/ inter_y2 < inter_y1 THEN [num |-> 0, den |-> 1]
       ELSE IF union_area > 0 THEN [num |-> inter_area, den |-> union_area]
       ELSE [num |-> 0, den |-> 1]

\* video_stream.py 297: compute_iou(...) < iou_threshold
Filtered(a, b) ==
    compute_iou(a, b).num * TRACK_IOU_DEN < TRACK_IOU_NUM * compute_iou(a, b).den

\* video_stream.py 289-299: the loop of non_max_suppression.
RECURSIVE SuppressLoop(_, _, _)
SuppressLoop(dets, order, keep) ==
    IF order = <<>> THEN keep
    ELSE LET i == Head(order)
             Kept(j) == Filtered(dets[i].box, dets[j].box)
         IN SuppressLoop(dets, SelectSeq(Tail(order), Kept), Append(keep, i))

\* non_max_suppression (video_stream.py 281-301): the indices kept.
non_max_suppression(dets) ==
    IF Len(dets) = 0 THEN <<>>
    ELSE SuppressLoop(dets, SortedReverse(dets, 1..Len(dets)), <<>>)

NmsOnly ==
    UNCHANGED <<now, sio_connected, peer_connection, pcs, pending_remote_ice,
                user_stopped, webrtc_restart_count, last_restart_time,
                video_track, tracks, detection_task, keepalive_task,
                tasks, out, burst, events, next_cand, phase, monitors>>

\* parse_onnx_detections runs _nms_boxes on its candidates (main.py 584).
RunNmsBoxes ==
    /\ nms.fmt = "corner" /\ nms.by = "-"
    /\ nms' = [nms EXCEPT !.by = "main", !.keep = nms_boxes(nms.dets)]
    /\ NmsOnly /\ UNCHANGED <<boot, onnx, camera>>

\* detect_objects runs non_max_suppression on its candidates
\* (video_stream.py 208).
RunNonMaxSuppression ==
    /\ nms.fmt = "centre" /\ nms.by = "-"
    /\ nms' = [nms EXCEPT !.by = "track", !.keep = non_max_suppression(nms.dets)]
    /\ NmsOnly /\ UNCHANGED <<boot, onnx, camera>>

----------------------------------------------------------------------------
(* Parsing the model output *)

NoOnnx == [outputs |-> <<>>, by |-> "-", dets |-> <<>>, final |-> <<>>]

\* An anchor of the model output [1, 6, 8400]: centre, size (pixels) and the
\* confidence of each class (hundredths).  The first anchors see nothing;
\* the last two carry a candidate.  Boxes coincide or lie apart.
Background(g) == [x |-> g, y |-> g, w |-> g, h |-> g, c0 |-> 0, c1 |-> 0]

Confidences == {<<0, 0>>, <<5, 0>>, <<7, 0>>, <<0, 4>>, <<5, 5>>, <<60, 0>>, <<60, 70>>}

Candidates == {[x |-> x, y |-> 0, w |-> 2, h |-> 2, c0 |-> c[1], c1 |-> c[2]] :
                  x \in {0, 4}, c \in Confidences}

Outputs ==
    {[n \in 1..MaxAnchors |-> IF n <= MaxAnchors - 2 THEN Background(g)
                              ELSE IF n = MaxAnchors - 1 THEN a ELSE b] :
        g \in {0, 4}, a \in Candidates, b \in Candidates}

\* main.py 472-475: centre format to corner format.
Bbox(x, y, w, h) == <<x - w \div 2, y - h \div 2, x + w \div 2, y + h \div 2>>

\* main.py 453-485: one row of the transposed output, with the threshold of
\* each class.
ParseAnchor(a, thresh_c0, thresh_c1) ==
    IF a.c0 >= thresh_c0 /\ a.c0 > a.c1
    THEN <<[box |-> Bbox(a.x, a.y, a.w, a.h), score |-> a.c0, class |-> 0]>>
    ELSE IF a.c1 >= thresh_c1 /\ a.c1 >= a.c0
    THEN <<[box |-> Bbox(a.x, a.y, a.w, a.h), score |-> a.c1, class |-> 1]>>
    ELSE <<>>

RECURSIVE ParseAnchors(_, _, _)
ParseAnchors(outputs, thresh_c0, thresh_c1) ==
    IF outputs = <<>> THEN <<>>
    ELSE ParseAnchor(Head(outputs), thresh_c0, thresh_c1)
         \o ParseAnchors(Tail(outputs), thresh_c0, thresh_c1)

\* The array out[0] of shape [6, anchors] as the fallback reads it (497-503):
\* row r holds attribute r of every anchor, in hundredths.
Row(outputs, r) ==
    [n \in 1..Len(outputs) |->
        CASE r = 1 -> 100 * outputs[n].x
          [] r = 2 -> 100 * outputs[n].y
          [] r = 3 -> 100 * outputs[n].w
          [] r = 4 -> 100 * outputs[n].h
          [] r = 5 -> outputs[n].c0
          [] OTHER -> outputs[n].c1]

\* main.py 508-529: a row taken as cx, cy, w, h, conf, cls.
FallbackRow(row, is_norm, conf_threshold) ==
    IF row[5] < conf_threshold THEN <<>>
    ELSE LET k == IF is_norm THEN INPUT_SIZE ELSE 1 IN
         <<[box |-> Bbox(k * (row[1] \div 100), k * (row[2] \div 100),
                         k * (row[3] \div 100), k * (row[4] \div 100)),
            score |-> row[5], class |-> row[6] \div 100]>>

\* main.py 530-537: a row taken as x1, y1, x2, y2, conf.
FallbackRow5(row, conf_threshold) ==
    IF row[5] < conf_threshold THEN <<>>
    ELSE <<[box |-> <<row[1] \div 100, row[2] \div 100,
                      row[3] \div 100, row[4] \div 100>>,
            score |-> row[5], class |-> 0]>>

RECURSIVE FallbackRows(_, _, _)
FallbackRows(outputs, r, conf_threshold) ==
    IF r > 6 THEN <<>>
    ELSE LET row == Row(outputs, r)
             sample == Row(outputs, 1)
             is_norm == sample[1] <= 101 /\ sample[2] <= 101
         IN (IF Len(outputs) >= 6 THEN FallbackRow(row, is_norm, conf_threshold)
             ELSE IF Len(outputs) = 5 THEN FallbackRow5(row, conf_threshold)
             ELSE <<>>)
            \o FallbackRows(outputs, r + 1, conf_threshold)

\* main.py 489-558: the fallback parser, run when the rows gave nothing; it
\* reads out[0] without transposing it, so its rows are the six attributes
\* and C is the number of anchors.
Fallback(outputs, conf_threshold) == FallbackRows(outputs, 1, conf_threshold)

\* parse_onnx_detections 426-588 with orig_size None: the candidates handed
\* to _nms_boxes and the detections returned.
parse_onnx_detections(outputs, conf_threshold, earth_threshold, sea_threshold) ==
    LET rows == ParseAnchors(outputs, earth_threshold, sea_threshold)
        dets == IF rows # <<>> THEN rows ELSE Fallback(outputs, conf_threshold)
        keep_idxs == nms_boxes(dets)
    IN [dets |-> dets,
        final |-> [k \in 1..Len(keep_idxs) |-> dets[keep_idxs[k]]]]

\* detect_objects 189-205: one threshold for both classes, the first class
\* tried first; the box stays in centre format.
FilterAnchor(a) ==
    IF a.c0 > TRACK_CONF_THRESHOLD
    THEN <<[box |-> <<a.x, a.y, a.w, a.h>>, score |-> a.c0, class |-> 0]>>
    ELSE IF a.c1 > TRACK_CONF_THRESHOLD
    THEN <<[box |-> <<a.x, a.y, a.w, a.h>>, score |-> a.c1, class |-> 1]>>
    ELSE <<>>

RECURSIVE FilterAnchors(_)
FilterAnchors(outputs) ==
    IF outputs = <<>> THEN <<>>
    ELSE FilterAnchor(Head(outputs)) \o FilterAnchors(Tail(outputs))

\* detect_objects 189-208: the candidates handed to non_max_suppression and
\* the detections it keeps.
filter_detections(outputs) ==
    LET dets == FilterAnchors(outputs)
        keep == non_max_suppression(dets)
    IN [dets |-> dets, final |-> [k \in 1..Len(keep) |-> dets[keep[k]]]]

OnnxOnly == NmsOnly /\ UNCHANGED <<nms, boot, camera>>

\* parse_onnx_detections is called with the configured thresholds.
RunParse ==
    /\ onnx.by = "-"
    /\ LET r == parse_onnx_detections(onnx.outputs, DEFAULT_CONFIDENCE_THRESHOLD,
                                      DEFAULT_EARTH_PERSON_THRESHOLD,
                                      DEFAULT_SEA_PERSON_THRESHOLD)
       IN onnx' = [onnx EXCEPT !.by = "main", !.dets = r.dets, !.final = r.final]
    /\ OnnxOnly

\* recv runs detect_objects on the frame (video_stream.py 133).
RunDetectObjects ==
    /\ onnx.by = "-"
    /\ LET r == filter_detections(onnx.outputs)
       IN onnx' = [onnx EXCEPT !.by = "track", !.dets = r.dets, !.final = r.final]
    /\ OnnxOnly

----------------------------------------------------------------------------
(* The CameraManager (camera_utils.py) *)

\* CameraManager.__init__ 23-33: no frame, not running, no thread.  objs
\* holds every frame array there is, the stored one and the copies handed
\* out; _frame and got are indices into it, 0 for None; got is -1 before
\* the first get_frame.  op names the last operation.
NewCamera == [_running |-> FALSE, _frame |-> 0, objs |-> <<>>,
              thread |-> "none", released |-> FALSE, reads |-> 0,
              stop |-> "-", got |-> -1, op |-> "-", others |-> <<>>]

\* start 75-96: nothing while _running is set; otherwise the flag is set,
\* the backend is opened and _thread names a new thread.  A thread that
\* _thread named before and that has not ended is kept in others.
start(c) ==
    IF c._running THEN [c EXCEPT !.op = "start"]
    ELSE [c EXCEPT !._running = TRUE, !.thread = "head", !.op = "start",
                   !.released = FALSE, !.stop = "-",
                   !.others = IF c.thread \in {"head", "reading", "sleeping"}
                              THEN Append(@, c.thread) ELSE @]

\* _capture_loop 100: while self._running.
loop_head(c) ==
    [c EXCEPT !.thread = IF c._running THEN "reading" ELSE "exited",
              !.op = "head"]

\* _capture_loop 101-151: the backend read; a frame is resized and stored
\* under the lock (149-150); a failed read (ret false, 141-142) or an
\* exception (151-152) stores nothing.  Then the loop sleeps (154).
capture(c, result) ==
    IF result = "frame"
    THEN [c EXCEPT !.objs = Append(@, [id |-> c.reads + 1, drawn |-> FALSE]),
                   !._frame = Len(c.objs) + 1,
                   !.reads = @ + 1,
                   !.thread = "sleeping", !.op = "read"]
    ELSE [c EXCEPT !.reads = @ + 1, !.thread = "sleeping", !.op = "readfail"]

\* A get_frame that returns the stored array itself.
get_frame_Mutant(c) == [c EXCEPT !.got = c._frame, !.op = "get"]

\* get_frame 155-160: None, or a copy of the stored frame.
get_frame(c) ==
    IF c._frame = 0 THEN [c EXCEPT !.got = 0, !.op = "get"]
    ELSE [c EXCEPT !.objs = Append(@, c.objs[c._frame]),
                   !.got = Len(c.objs) + 1, !.op = "get"]

\* A join that waits for the thread however long it takes.
join_over_Mutant(c) == c.thread = "exited"

\* stop 164-165: join(timeout=1.0) returns when the thread has ended or
\* when the second is over.
join_over(c) == TRUE

\* stop 166-177: the backend is released.
release_backend(c) == [c EXCEPT !.released = TRUE, !.stop = "returned", !.op = "release"]

\* stop 162-165: the flag is cleared; a live thread is joined.
stop(c) ==
    LET c1 == [c EXCEPT !._running = FALSE, !.op = "stop"] IN
    IF c.thread \in {"head", "reading", "sleeping"} THEN [c1 EXCEPT !.stop = "join"]
    ELSE [release_backend(c1) EXCEPT !.op = "stop"]

CameraOnly == NmsOnly /\ UNCHANGED <<nms, boot, onnx>>

\* setup_camera 187-188 starts the manager it has created.
CameraStart ==
    /\ camera.thread = "none" /\ camera.stop = "-"
    /\ camera' = start(camera)
    /\ CameraOnly

LoopHead ==
    /\ camera.thread = "head"
    /\ camera' = loop_head(camera)
    /\ CameraOnly

\* The backend read returns.
ReadDone ==
    \E result \in {"frame", "none", "raise"} :
        /\ camera.thread = "reading"
        /\ camera.reads < MaxReads
        /\ camera' = capture(camera, result)
        /\ CameraOnly

SleepDone ==
    /\ camera.thread = "sleeping"
    /\ camera' = [camera EXCEPT !.thread = "head", !.op = "sleep"]
    /\ CameraOnly

\* A caller asks for the latest frame (main.py 997, capture_api.py 31).
GetFrame ==
    /\ Len(camera.objs) < MaxReads + MaxCopies
    /\ camera' = get_frame(camera)
    /\ CameraOnly

\* The caller draws on the frame it was given.
CallerWrites ==
    /\ camera.got > 0
    /\ ~camera.objs[camera.got].drawn
    /\ camera' = [camera EXCEPT !.objs[camera.got].drawn = TRUE, !.op = "write"]
    /\ CameraOnly

\* release() / stop() is called (main.py 1123).
CameraStop ==
    /\ camera.stop = "-"
    /\ camera' = stop(camera)
    /\ CameraOnly

\* The join in stop() is over.
JoinEnds ==
    /\ camera.stop = "join"
    /\ join_over(camera)
    /\ camera' = release_backend(camera)
    /\ CameraOnly

\* start() is called on a manager that was started before (75-96): it
\* returns at once while _running is set, and starts a thread otherwise.
CameraRestart ==
    /\ camera.thread # "none" /\ camera.stop # "join"
    /\ Len(camera.others) < MaxRestarts
    /\ camera' = start(camera)
    /\ CameraOnly

\* A step of capture thread k that _thread names no more.
OnStray(c, k, Step(_)) ==
    LET c1 == Step([c EXCEPT !.thread = c.others[k]])
    IN [c1 EXCEPT !.others[k] = c1.thread, !.thread = c.thread]

StrayLoopHead ==
    \E k \in 1..Len(camera.others) :
        /\ camera.others[k] = "head"
        /\ camera' = OnStray(camera, k, loop_head)
        /\ CameraOnly

StrayReadDone ==
    \E k \in 1..Len(camera.others), result \in {"frame", "none", "raise"} :
        /\ camera.others[k] = "reading"
        /\ camera.reads < MaxReads
        /\ LET read(c) == capture(c, result)
           IN camera' = [OnStray(camera, k, read) EXCEPT !.op = "strayread"]
        /\ CameraOnly

StraySleepDone ==
    \E k \in 1..Len(camera.others) :
        /\ camera.others[k] = "sleeping"
        /\ camera' = [camera EXCEPT !.others[k] = "head", !.op = "sleep"]
        /\ CameraOnly

\* A capture_result message.
CaptureSuccess == [success |-> TRUE, image_url |-> "secure_url", error |-> "-"]
CaptureFailure(error) == [success |-> FALSE, image_url |-> "-", error |-> error]

\* A capture_command that returns without a word when there is no frame.
capture_command_Mutant(dev, webcam, frame, encoded, uploaded) ==
    IF dev # device_id THEN <<>>
    ELSE IF ~webcam THEN <<CaptureFailure("Camera not available")>>
    ELSE IF frame = 0 THEN <<>>
    ELSE IF ~encoded THEN <<CaptureFailure("exception")>>
    ELSE IF uploaded THEN <<CaptureSuccess>>
    ELSE <<CaptureFailure("Upload failed")>>

\* capture_command 970-1071: the capture_result messages it emits, in
\* order.  frame is what webcam.get_frame() returned (0 for None); the JPEG
\* encoding may raise (1011, caught at 1065) and the upload may raise (1036,
\* caught at 1057).  The handler runs up to its emit without suspending, on
\* a bus that has just delivered the command.
capture_command(dev, webcam, frame, encoded, uploaded) ==
    IF dev # device_id THEN <<>>
    ELSE IF ~webcam THEN <<CaptureFailure("Camera not available")>>
    ELSE IF frame = 0 THEN <<CaptureFailure("Failed to capture frame")>>
    ELSE IF ~encoded THEN <<CaptureFailure("exception")>>
    ELSE IF uploaded THEN <<CaptureSuccess>>
    ELSE <<CaptureFailure("Upload failed")>>

\* A capture_command arrives: the handler takes the latest frame of the
\* camera main has set up when the command is for this device.
RecvCapture ==
    \E dev \in DeviceIds, encoded \in BOOLEAN, uploaded \in BOOLEAN :
        /\ sio_connected
        /\ Len(camera.objs) < MaxReads + MaxCopies
        /\ LET asked == dev = device_id /\ boot.webcam
               c == IF asked THEN get_frame(camera) ELSE camera
           IN /\ camera' = c
              /\ CommitGlobals(Delivered(
                     [World EXCEPT !.out.msg = "capture_command",
                                   !.out.results =
                                       capture_command(dev, boot.webcam,
                                                       IF asked THEN c.got ELSE 0,
                                                       encoded, uploaded)],
                     dev))
        /\ Env /\ UNCHANGED <<next_cand, sio_connected, nms, boot, onnx, monitors>>

----------------------------------------------------------------------------
(* The keepalive and stats tasks, one object each *)

\* The ICE connection states and the changes between them that raise
\* "iceconnectionstatechange" (the event of main.py 139).
IceNext(s) ==
    CASE s = "new" -> {"checking"}
      [] s = "checking" -> {"connected", "failed"}
      [] s = "connected" -> {"completed", "disconnected"}
      [] s = "completed" -> {"disconnected"}
      [] s = "disconnected" -> {"connected", "failed"}
      [] OTHER -> {}

\* No task has been created, no handler has been scheduled.
NoMonitors ==
    [objs |-> <<>>, keepalive_task |-> 0, stats_monitor_task |-> 0,
     handlers |-> <<>>, ice |-> "new"]

\* asyncio.create_task (329, 330): a task that has not ended.
NewTask(kind) == [kind |-> kind, state |-> "pending", waiters |-> <<>>]

\* The tasks of one kind that run and have not been asked to end.
AliveTasks(m, kind) ==
    {k \in 1..Len(m.objs) : m.objs[k].kind = kind /\ m.objs[k].state = "pending"}

\* task.cancel() and "await task" (339-341, 348-350): the task is asked to
\* end and the caller waits for it behind the callers already waiting.
CancelAndAwait(m, h, k, pc) ==
    [m EXCEPT !.objs[k].state = "cancelling",
              !.objs[k].waiters = Append(@, h),
              !.handlers[h].pc = pc]

\* start_keepalive 329-330: both tasks are created and the globals name them.
CreateTasks(m, h) ==
    [m EXCEPT !.objs = @ \o <<NewTask("keepalive"), NewTask("stats")>>,
              !.keepalive_task = Len(m.objs) + 1,
              !.stats_monitor_task = Len(m.objs) + 2,
              !.handlers[h].pc = "done"]

\* stop_keepalive has returned: start_keepalive goes on to 329, the
\* handler of "failed"/"disconnected" ends (167).
AfterStop(m, h) ==
    IF m.handlers[h].then = "start" THEN CreateTasks(m, h)
    ELSE [m EXCEPT !.handlers[h].pc = "done"]

\* stop_keepalive 347-350.
StopStatsTask(m, h) ==
    IF m.stats_monitor_task # 0 /\ m.objs[m.stats_monitor_task].state # "done"
    THEN CancelAndAwait(m, h, m.stats_monitor_task, "await_stats")
    ELSE AfterStop(m, h)

\* stop_keepalive 338-341.
StopKeepaliveTask(m, h) ==
    IF m.keepalive_task # 0 /\ m.objs[m.keepalive_task].state # "done"
    THEN CancelAndAwait(m, h, m.keepalive_task, "await_keepalive")
    ELSE StopStatsTask(m, h)

\* on_iceconnectionstatechange 141-148, 165-167: the state is read when the
\* handler runs.
IceHandler(m, h) ==
    IF m.ice \in {"connected", "completed"}
    THEN StopKeepaliveTask([m EXCEPT !.handlers[h].then = "start"], h)
    ELSE IF m.ice \in {"failed", "disconnected"}
    THEN StopKeepaliveTask([m EXCEPT !.handlers[h].then = "stop"], h)
    ELSE [m EXCEPT !.handlers[h].pc = "done"]

\* The caller that waits first for task k, which has ended.
FirstWaiter(m, h, pc) ==
    /\ m.handlers[h].pc = pc
    /\ \E k \in 1..Len(m.objs) :
          /\ m.objs[k].state = "done"
          /\ m.objs[k].waiters # <<>>
          /\ Head(m.objs[k].waiters) = h

Unqueued(m, h) ==
    [m EXCEPT !.objs = [k \in 1..Len(m.objs) |->
        IF m.objs[k].waiters # <<>> /\ Head(m.objs[k].waiters) = h
        THEN [m.objs[k] EXCEPT !.waiters = Tail(@)] ELSE m.objs[k]]]

MonitorsOnly ==
    UNCHANGED <<now, sio_connected, peer_connection, pcs, pending_remote_ice,
                user_stopped, webrtc_restart_count, last_restart_time,
                video_track, tracks, detection_task, keepalive_task,
                tasks, out, burst, events, next_cand, phase,
                nms, boot, onnx, camera>>

\* The session's ICE state changes and the emitter schedules the handler;
\* the handler scheduled before has run to its first await by then.
IceStateChanges ==
    \E s \in IceNext(monitors.ice) :
        /\ Len(monitors.handlers) < MaxIceChanges
        /\ \A h \in 1..Len(monitors.handlers) : monitors.handlers[h].pc # "start"
        /\ monitors' = [monitors EXCEPT !.ice = s,
                            !.handlers = Append(@, [pc |-> "start", then |-> "-"])]
        /\ MonitorsOnly

IceHandlerRuns ==
    \E h \in 1..Len(monitors.handlers) :
        /\ monitors.handlers[h].pc = "start"
        /\ monitors' = IceHandler(monitors, h)
        /\ MonitorsOnly

\* A task asked to end gets the CancelledError at its await (280, 324).
TaskCancelled ==
    \E k \in 1..Len(monitors.objs) :
        /\ monitors.objs[k].state = "cancelling"
        /\ monitors' = [monitors EXCEPT !.objs[k].state = "done"]
        /\ MonitorsOnly

\* keepalive_ping 266-268, stats_monitor 291-293: the loop finds the
\* session not connected and ends.
TaskLoopBreaks ==
    \E k \in 1..Len(monitors.objs) :
        /\ monitors.objs[k].state = "pending"
        /\ monitors.ice \notin {"connected", "completed"}
        /\ monitors' = [monitors EXCEPT !.objs[k].state = "done"]
        /\ MonitorsOnly

\* stop_keepalive 341-347: the await returns, the global is cleared.
AwaitKeepaliveReturns ==
    \E h \in 1..Len(monitors.handlers) :
        /\ FirstWaiter(monitors, h, "await_keepalive")
        /\ monitors' = StopStatsTask(
               [Unqueued(monitors, h) EXCEPT !.keepalive_task = 0], h)
        /\ MonitorsOnly

\* stop_keepalive 350-354: the await returns, the global is cleared.
AwaitStatsReturns ==
    \E h \in 1..Len(monitors.handlers) :
        /\ FirstWaiter(monitors, h, "await_stats")
        /\ monitors' = AfterStop(
               [Unqueued(monitors, h) EXCEPT !.stats_monitor_task = 0], h)
        /\ MonitorsOnly

----------------------------------------------------------------------------
(* main(): start-up *)

\* main() sleeping in its final loop (1225-1227).
Serving == [pc |-> "serving", retry_count |-> 0, webcam |-> TRUE,
            frames |-> TRUE, connects |-> 0]

\* main() before the camera set-up (1181-1183); webcam is None.
Booting == [pc |-> "camera", retry_count |-> 0, webcam |-> FALSE,
            frames |-> FALSE, connects |-> 0]

\* setup_camera (camera_utils.py 183-196): the CameraManager is created and
\* started (75-96, its constructor and start() swallow every backend
\* error) and returned whether a first frame has arrived or not.
setup_camera(frames) == TRUE

\* main 1185-1197: one round of the camera loop.
camera_round(b, frames) ==
    LET webcam == setup_camera(frames) IN
    IF webcam
    THEN [b EXCEPT !.webcam = TRUE, !.frames = frames, !.retry_count = 0,
                   !.pc = "connect"]
    ELSE IF b.retry_count + 1 < CAMERA_RETRIES
    THEN [b EXCEPT !.retry_count = @ + 1, !.pc = "camera_sleep"]
    ELSE [b EXCEPT !.retry_count = @ + 1, !.pc = "returned"]

\* main 1213-1221: sio.connect raised.
connect_failed(b) ==
    IF b.retry_count + 1 < CONNECT_RETRIES
    THEN [b EXCEPT !.retry_count = @ + 1, !.connects = @ + 1,
                   !.pc = "connect_sleep"]
    ELSE [b EXCEPT !.retry_count = @ + 1, !.connects = @ + 1,
                   !.pc = "returned"]

MainOnly == UNCHANGED <<now, phase, events, next_cand, nms, onnx, camera, monitors>>

\* main 1181-1202: the camera is set up; the loop ends with a camera, and
\* the health check is started.  (The retry sleep of 1193-1194 is never
\* reached: setup_camera does not return None.)
SetupCamera ==
    \E frames \in BOOLEAN :
        /\ boot.pc = "camera"
        /\ boot' = camera_round(boot, frames)
        /\ CommitGlobals(IF boot'.pc = "connect"
                         THEN [World EXCEPT !.tasks = HealthStart(@)]
                         ELSE World)
        /\ MainOnly /\ UNCHANGED sio_connected

\* main 1208-1212: sio.connect(args.server) is awaited; when the server is
\* reached the connect handler runs.
ServerConnect ==
    \E reached \in BOOLEAN :
        /\ boot.pc = "connect"
        /\ FreeSlots(World) # {}
        /\ IF reached
           THEN /\ sio_connected' = TRUE
                /\ boot' = [boot EXCEPT !.pc = "serving", !.connects = @ + 1]
                /\ CommitGlobals(connect(World))
           ELSE /\ sio_connected' = FALSE
                /\ boot' = connect_failed(boot)
                /\ CommitGlobals(World)
        /\ MainOnly

\* main 1217-1218: the wait between two attempts is over.
ConnectRetry ==
    /\ boot.pc = "connect_sleep"
    /\ boot' = [boot EXCEPT !.pc = "connect"]
    /\ CommitGlobals(World)
    /\ MainOnly /\ UNCHANGED sio_connected

\* gps_task is the coroutine function of gps_utils.py 38, imported at
\* main.py 32 and never rebound: it is true, and it has no attribute done.
gps_task_done == "AttributeError"

\* cleanup 1111-1124: the session is closed, the track stopped.
cleanup_sessions(w) ==
    LET w1 == IF w.peer = 0 THEN w
              ELSE SetPeer(PcClose(w, w.peer, "cleanup"), 0)
    IN StopTrack(w1)

\* cleanup 1098-1145: running is cleared and the keepalive stopped; the test
\* of gps_task (1108) raises, cleanup has no handler for it, and the
\* exception leaves main through its finally (1238-1240).
cleanup(w) ==
    LET w1 == [w EXCEPT !.keep = IF KeepaliveActive(w) THEN "none" ELSE @,
                        !.out.halted = "cleanup"]
    IN IF gps_task_done = "AttributeError" THEN w1 ELSE cleanup_sessions(w1)

\* main 1224-1240: the final loop is left and cleanup runs.
Shutdown ==
    /\ boot.pc = "serving"
    /\ boot' = [boot EXCEPT !.pc = "ended"]
    /\ CommitGlobals(cleanup(World))
    /\ camera' = IF gps_task_done = "AttributeError" \/ ~boot.webcam THEN camera
                 ELSE release_backend(camera)
    /\ UNCHANGED <<now, phase, events, next_cand, sio_connected, nms, onnx,
                   monitors>>

----------------------------------------------------------------------------
(* Specifications *)

InitGlobals ==
    /\ now = StartTime
    /\ sio_connected = FALSE
    /\ peer_connection = 0
    /\ pcs = <<>>
    /\ pending_remote_ice = <<>>
    /\ user_stopped = FALSE
    /\ webrtc_restart_count = 0
    /\ last_restart_time = 0
    /\ video_track = 0
    /\ tracks = <<>>
    /\ detection_task = [started |-> FALSE, ref |-> 0]
    /\ keepalive_task = "none"
    /\ out = NoOut
    /\ burst = [start |-> 0, n |-> 0, at |-> 0]
    /\ events = 0
    /\ next_cand = 1
    /\ monitors = NoMonitors

\* main() has passed its start-up and sleeps in its final loop; the health
\* check runs.
InitServing == InitGlobals /\ tasks = HealthStart(NoTasks) /\ boot = Serving

InitCommon == InitServing /\ nms = NoNms /\ onnx = NoOnnx /\ camera = NewCamera

Init == InitCommon /\ phase = "signal"

Next ==
    \/ BusConnect \/ BusDisconnect \/ RecvStart \/ RecvStop \/ RecvAnswer
    \/ TransportEvent
    \/ HealthCheck \/ StateChange \/ StateChangeRestart \/ AnswerRestart
    \/ CloseReturned \/ StopCloseReturned \/ Gathered
    \/ RemoteDescriptionSet \/ Tick

Spec == Init /\ [][Next]_vars

\* The same, and the remote peer may send an offer of its own.
InitOffer == InitCommon /\ phase = "offer"

NextOffer ==
    \/ BusConnect \/ BusDisconnect \/ RecvStart \/ RecvStop \/ RecvAnswer
    \/ RecvCandidate \/ RecvOffer
    \/ TransportEvent
    \/ HealthCheck \/ StateChange \/ StateChangeRestart \/ AnswerRestart
    \/ CloseReturned \/ StopCloseReturned \/ Gathered
    \/ RemoteDescriptionSet \/ CandidateAdded \/ Tick

SpecOffer == InitOffer /\ [][NextOffer]_vars

\* Gathering: the local candidates of a session may be gathered late or
\* never, over a stretch of time longer than the gathering timeout.
InitGather == InitCommon /\ phase = "gather"

NextGather ==
    \/ BusConnect \/ RecvStop \/ RecvAnswer \/ GatheringComplete
    \/ TransportEvent
    \/ HealthCheck \/ StateChange \/ StateChangeRestart \/ AnswerRestart
    \/ CloseReturned \/ StopCloseReturned \/ Gathered \/ Tick

SpecGather == InitGather /\ [][NextGather]_vars

\* Still images: capture commands arrive while the capture thread of the
\* started camera reads frames or fails to.
InitCapture ==
    /\ InitServing /\ nms = NoNms /\ onnx = NoOnnx
    /\ camera = start(NewCamera)
    /\ phase = "capture"

NextCapture ==
    \/ BusConnect \/ BusDisconnect \/ RecvCapture
    \/ LoopHead \/ ReadDone \/ SleepDone
    \/ HealthCheck \/ Gathered \/ Tick

SpecCapture == InitCapture /\ [][NextCapture]_vars

\* Candidate exchange: candidates and answers arrive, with a stop or a
\* start in between.
InitIce == InitCommon /\ phase = "ice"

NextIce ==
    \/ BusConnect \/ RecvStart \/ RecvStop \/ RecvAnswer \/ RecvCandidate
    \/ HealthCheck \/ StateChange \/ StateChangeRestart \/ AnswerRestart
    \/ StopCloseReturned \/ Gathered
    \/ RemoteDescriptionSet \/ CandidateAdded \/ Tick

SpecIce == InitIce /\ [][NextIce]_vars

\* Restart budget: restart requests over a stretch of time long enough for
\* a cool-down to elapse.
InitBudget == InitCommon /\ phase = "budget"

NextBudget ==
    \/ BusConnect \/ RecvStart
    \/ HealthCheck \/ CooldownOver \/ Gathered \/ Tick

SpecBudget == InitBudget /\ [][NextBudget]_vars

\* Detection publishing: the publisher and the detection worker run while
\* the stream is connected, stopped and started again.
InitPublish == InitCommon /\ phase = "publish"

NextPublish ==
    \/ BusConnect \/ BusDisconnect \/ RecvStart \/ RecvStop
    \/ StateChange \/ StopCloseReturned \/ Gathered
    \/ DetectionWorker \/ Publish

SpecPublish == InitPublish /\ [][NextPublish]_vars

\* Recovery: sessions fail while the bus stays up or drops, the operator
\* starts and stops; the event loop is fair to every task that is ready to
\* run, and time passes.
InitLive == InitCommon /\ phase = "live"

NextLive ==
    \/ BusConnect \/ BusDisconnect \/ RecvStart \/ RecvStop
    \/ TransportEvent
    \/ HealthCheck \/ StateChange \/ StateChangeRestart
    \/ CloseReturned \/ StopCloseReturned \/ Gathered \/ Tick

Fairness ==
    /\ WF_vars(HealthCheck) /\ WF_vars(StateChange)
    /\ WF_vars(StateChangeRestart) /\ WF_vars(CloseReturned)
    /\ WF_vars(StopCloseReturned) /\ WF_vars(Gathered) /\ WF_vars(Tick)

SpecLive == InitLive /\ [][NextLive]_vars /\ Fairness

\* The session objects: the operator starts and stops while closes are
\* under way, sessions fail, the bus connects and drops.
InitSessions == InitCommon /\ phase = "sessions"

NextSessions ==
    \/ BusConnect \/ BusDisconnect \/ RecvStart \/ RecvStop
    \/ TransportEvent
    \/ HealthCheck \/ StateChange \/ StateChangeRestart
    \/ CloseReturned \/ StopCloseReturned \/ Gathered \/ Tick

SpecSessions == InitSessions /\ [][NextSessions]_vars

\* The video track: the capture thread fills the frame buffer while the
\* sender draws frames from the track, until the stream is stopped.
InitTrack == InitCommon /\ phase = "track"

NextTrack ==
    \/ CaptureFrame
    \/ InferenceDone
    \/ LoopFree /\ (\/ BusConnect \/ RecvStop
                    \/ StateChange \/ StopCloseReturned \/ Gathered
                    \/ SenderRecv \/ PacingOver)

SpecTrack == InitTrack /\ [][NextTrack]_vars

\* Non-maximum suppression over every small list of candidates.
InitNms ==
    /\ InitServing /\ phase = "nms"
    /\ nms \in {[fmt |-> "corner", dets |-> d, by |-> "-", keep |-> <<>>] :
                   d \in Detections(CornerBoxes)}
              \cup {[fmt |-> "centre", dets |-> d, by |-> "-", keep |-> <<>>] :
                      d \in Detections(CentreBoxes)}
    /\ onnx = NoOnnx /\ camera = NewCamera

NextNms == RunNmsBoxes \/ RunNonMaxSuppression

SpecNms == InitNms /\ [][NextNms]_vars

\* Parsing every small model output.
InitParse ==
    /\ InitServing /\ phase = "parse" /\ nms = NoNms
    /\ onnx \in {[NoOnnx EXCEPT !.outputs = o] : o \in Outputs}
    /\ camera = NewCamera

NextParse == RunParse \/ RunDetectObjects

SpecParse == InitParse /\ [][NextParse]_vars

\* The camera manager: its capture thread, callers of get_frame and one
\* call of stop.  A backend read may never return; the join of stop() is
\* over after its timeout at the latest.
InitCamera ==
    /\ InitServing /\ phase = "camera" /\ nms = NoNms /\ onnx = NoOnnx
    /\ camera = NewCamera

NextCamera ==
    \/ CameraStart \/ LoopHead \/ ReadDone \/ SleepDone
    \/ GetFrame \/ CallerWrites \/ CameraStop \/ JoinEnds

SpecCamera == InitCamera /\ [][NextCamera]_vars /\ WF_vars(JoinEnds)

\* The CameraManager under any sequence of start() and stop() calls.
InitRestart ==
    /\ InitServing /\ phase = "restart" /\ nms = NoNms /\ onnx = NoOnnx
    /\ camera = NewCamera

NextRestart ==
    \/ CameraStart \/ CameraRestart \/ CameraStop \/ JoinEnds
    \/ LoopHead \/ ReadDone \/ SleepDone
    \/ StrayLoopHead \/ StrayReadDone \/ StraySleepDone

SpecRestart == InitRestart /\ [][NextRestart]_vars

\* Shutdown: the program serves, with its camera started, and at some
\* moment main leaves its final loop.
InitShutdown ==
    /\ InitServing /\ phase = "shutdown" /\ nms = NoNms /\ onnx = NoOnnx
    /\ camera = start(NewCamera)

NextShutdown ==
    \/ BusConnect \/ BusDisconnect \/ RecvStop \/ TransportEvent
    \/ HealthCheck \/ StateChange \/ StateChangeRestart
    \/ CloseReturned \/ StopCloseReturned \/ Gathered \/ Tick
    \/ Shutdown

SpecShutdown == InitShutdown /\ [][NextShutdown]_vars

\* Start-up: the camera, then the server, which may not be reached; then
\* the bus drops, sessions fail and the health check runs.
InitBoot ==
    /\ InitGlobals /\ tasks = NoTasks /\ phase = "boot"
    /\ nms = NoNms /\ boot = Booting /\ onnx = NoOnnx /\ camera = NewCamera

NextBoot ==
    \/ SetupCamera \/ ServerConnect \/ ConnectRetry
    \/ BusDisconnect \/ TransportEvent
    \/ HealthCheck \/ StateChange \/ StateChangeRestart
    \/ CloseReturned \/ Gathered \/ Tick

SpecBoot == InitBoot /\ [][NextBoot]_vars

\* Keepalive: the answer arrives, the ICE transport completes, the session
\* connects, the operator asks for the stream again.
InitKeep == InitCommon /\ phase = "keep"

NextKeep ==
    \/ BusConnect \/ RecvStart \/ RecvAnswer \/ TransportEvent \/ IceCompleted
    \/ RemoteDescriptionSet \/ AnswerRestart
    \/ HealthCheck \/ StateChange \/ IceStateChange \/ StateChangeRestart
    \/ KeepaliveStopped \/ KeepaliveRound
    \/ CloseReturned \/ Gathered \/ Tick

SpecKeep == InitKeep /\ [][NextKeep]_vars

\* Monitoring: as above, and the ICE transport may report a loss and the
\* operator may stop the stream.
InitMonitor == InitCommon /\ phase = "monitor"

NextMonitor ==
    \/ BusConnect \/ RecvStart \/ RecvStop \/ RecvAnswer
    \/ TransportEvent \/ IceCompleted \/ IceLost
    \/ RemoteDescriptionSet \/ AnswerRestart
    \/ HealthCheck \/ StateChange \/ IceStateChange \/ StateChangeRestart
    \/ KeepaliveStopped \/ KeepaliveRound
    \/ CloseReturned \/ StopCloseReturned \/ Gathered \/ Tick

SpecMonitor == InitMonitor /\ [][NextMonitor]_vars

\* The ICE state of one session changes; the handlers stop and start the
\* keepalive and stats tasks.
InitTasks == InitCommon /\ phase = "tasks"

NextTasks ==
    \/ IceStateChanges \/ IceHandlerRuns \/ TaskCancelled \/ TaskLoopBreaks
    \/ AwaitKeepaliveReturns \/ AwaitStatsReturns

SpecTasks == InitTasks /\ [][NextTasks]_vars

----------------------------------------------------------------------------
(* Properties *)

\* The global session exists and has a remote description
\* (the test of webrtc_ice_candidate, 890).
Ready == IF peer_connection = 0 THEN FALSE ELSE pcs[peer_connection].remote

\* A step that received a candidate message.
Received == next_cand' # next_cand

\* A stop_webrtc for this device has been handled (its handler has ended)
\* and no start_webrtc has followed.
StopHandled == user_stopped /\ \A i \in TaskIds : tasks[i].kind # "stop"

\* Task i is in the cool-down sleep of restart_webrtc and its time is not up.
CoolingDown(i) == tasks[i].pc = "rs_cool" /\ now < tasks[i].wake

WellFormed(c) == ParseCandidate(c)

RECURSIVE Numbers(_)
Numbers(cs) == IF cs = <<>> THEN <<>> ELSE <<Head(cs).n>> \o Numbers(Tail(cs))

NumberSet(cs) == {cs[k].n : k \in 1..Len(cs)}

InOrder(ns) == \A j, k \in 1..Len(ns) : j < k => ns[j] < ns[k]

C3_ClosedUntilStart == StopHandled => ~out.created /\ ~out.offer

\* C4: a restart request that is the fourth (or a later one) within one
\* restart window of the first is deferred to the cool-down.
C4_FourthDeferred ==
    (out.request # "-" /\ burst.n > RESTART_LIMIT) => out.deferred

\* C5: when a restart leaves its cool-down sleep, the restart budget count
\* is 0.
C5_CooldownResetsBudget ==
    [][\A i \in TaskIds :
          (tasks[i].pc = "rs_cool" /\ tasks'[i].pc # "rs_cool")
              => webrtc_restart_count' = 0]_vars

C5_Witness == \E i \in TaskIds : tasks[i].cooled

\* C6: while a restart is in its cool-down, no step executes a restart
\* attempt.
C6_NoAttemptDuringCooldown ==
    (\E i \in TaskIds : CoolingDown(i)) => ~out.attempt

C11_OtherDeviceIgnored ==
    [][(out'.dev # "-" /\ out'.dev # device_id) =>
          /\ pcs' = pcs
          /\ peer_connection' = peer_connection
          /\ pending_remote_ice' = pending_remote_ice]_vars

\* The counts of a DetectionSet, by class and in total.
Counts(ds) ==
    [earth_person_count |-> CountClass(ds, 0),
     sea_person_count |-> CountClass(ds, 1),
     person_count |-> Len(ds)]

TransportFailed ==
    /\ peer_connection # 0
    /\ \E i \in 1..MaxTasks : tasks[i].pc = "sc_start" /\ tasks[i].org = "transport"
    /\ IF peer_connection = 0 THEN FALSE ELSE pcs[peer_connection].conn = "failed"

C14_QueueAtMostTwo ==
    \A k \in 1..Len(tracks) : Len(tracks[k].buffer) <= 2

\* C15: recv hands over its frame without having waited for an inference
\* pass, on detection ticks as on every other tick.
C15_EmissionNeverWaits == ~out.emitted.waited

\* The corners <<x1, y1, x2, y2>> of a box of either format.
Corners(fmt, b) ==
    IF fmt = "corner" THEN b
    ELSE <<b[1] - b[3] \div 2, b[2] - b[4] \div 2,
           b[1] + b[3] \div 2, b[2] + b[4] \div 2>>

Area(c) == (c[3] - c[1]) * (c[4] - c[2])

Intersection(c, d) ==
    Max(0, Min(c[3], d[3]) - Max(c[1], d[1])) *
    Max(0, Min(c[4], d[4]) - Max(c[2], d[2]))

\* The IoU of two boxes is above num/den: intersection over union of the
\* areas; boxes without area overlap nothing.
IoUAbove(c, d, num, den) ==
    LET i == Intersection(c, d)
        u == Area(c) + Area(d) - i
    IN u > 0 /\ i * den > num * u

\* Boxes j and k of the run overlap above the threshold of the function
\* that ran (or is to run).
Overlap(j, k) ==
    IF nms.fmt = "corner"
    THEN IoUAbove(Corners("corner", nms.dets[j].box),
                  Corners("corner", nms.dets[k].box), NMS_IOU_NUM, NMS_IOU_DEN)
    ELSE IoUAbove(Corners("centre", nms.dets[j].box),
                  Corners("centre", nms.dets[k].box), TRACK_IOU_NUM, TRACK_IOU_DEN)

Retained == {nms.keep[n] : n \in 1..Len(nms.keep)}

\* C16: in the DetectionSet one NMS run retains, no two boxes have an IoU
\* above the threshold.
C16_RetainedApart ==
    nms.by # "-" => \A j, k \in Retained : j # k => ~Overlap(j, k)

C16_Witness ==
    /\ nms.by # "-"
    /\ Cardinality(Retained) >= 2
    /\ Cardinality(Retained) < Len(nms.dets)

AllOverlap ==
    \A j, k \in 1..Len(nms.dets) : j # k => Overlap(j, k)

\* C17: when all candidates of a run overlap pairwise above the threshold,
\* exactly one is retained, and none of the candidates has a higher score.
C17_OneSurvivor ==
    (nms.by # "-" /\ Len(nms.dets) > 0 /\ AllOverlap) =>
        /\ Len(nms.keep) = 1
        /\ \A j \in 1..Len(nms.dets) :
               nms.dets[j].score <= nms.dets[nms.keep[1]].score

C17_Witness ==
    /\ nms.by # "-" /\ Len(nms.dets) = MaxBoxes /\ AllOverlap
    /\ \E j, k \in 1..Len(nms.dets) : nms.dets[j].score # nms.dets[k].score

\* C18: when the camera never delivers a frame, main does not go on to the
\* signalling server: no connection to the bus is attempted, no device is
\* registered and no offer is sent.
C18_NoSignallingWithoutCamera ==
    (boot.pc # "camera" /\ ~boot.frames) =>
        /\ boot.connects = 0
        /\ ~sio_connected
        /\ ~out.offer

\* C19: main returns only when the camera set-up retries are exhausted.
C19_OnlyCameraEndsMain ==
    boot.pc = "returned" => (~boot.webcam /\ boot.retry_count = CAMERA_RETRIES)

\* The global session is connected and the handlers of its state changes
\* have run.
Connected ==
    /\ IF peer_connection = 0 THEN FALSE
       ELSE pcs[peer_connection].conn = "connected"
    /\ \A i \in 1..MaxTasks : tasks[i].pc # "sc_start"

C23_EveryTickEmits ==
    \A k \in 1..Len(tracks) :
        out.tick = k =>
            /\ tracks[k].recv = "inferring" \/ out.emitted.pts = tracks[k].counter
            /\ tracks[k].buffer = <<>> =>
                   /\ out.emitted.pts = tracks[k].counter
                   /\ out.emitted.frame = 0
                   /\ out.emitted.text = "Camera Error"

\* recv ran before the capture thread had buffered a frame.
C23_Witness ==
    /\ out.tick # 0
    /\ tracks[out.tick].buffer = <<>>
    /\ out.emitted.text = "Camera Error"

\* C24: once a detection result is cached, every camera frame handed to the
\* transport carries the overlay of the latest cached result.
C24_OverlayOnEveryFrame ==
    \A k \in 1..Len(tracks) :
        (out.emitted.track = k /\ out.emitted.frame # 0
            /\ tracks[k].last_detection_data # 0) =>
            out.emitted.overlay = tracks[k].last_detection_data

\* C26: when the model raises on a frame, the cached detection result is
\* left as it was, the frame of that call is still handed to the transport,
\* and the track is ready for the next call.
C26_InferenceErrorSkipsUpdate ==
    [][\A k \in 1..Len(tracks) :
          (k <= Len(tracks') /\ tracks[k].recv = "inferring" /\ out'.failed) =>
              /\ tracks'[k].last_detection_data = tracks[k].last_detection_data
              /\ tracks'[k].overlays = tracks[k].overlays
              /\ out'.emitted.pts = tracks[k].counter
              /\ out'.emitted.frame = tracks[k].frame
              /\ tracks'[k].recv = "idle"
              /\ tracks'[k].running = tracks[k].running]_vars

\* The model raised on a call made after a result had been cached.
C26_Witness ==
    /\ out.failed
    /\ out.emitted.frame # 0
    /\ tracks[out.emitted.track].last_detection_data # 0

\* The threshold configured for a class.
ClassThreshold(class) ==
    IF class = 0 THEN DEFAULT_EARTH_PERSON_THRESHOLD ELSE DEFAULT_SEA_PERSON_THRESHOLD

\* C25: every detection handed to NMS, and so every detection returned, is
\* of one of the two classes and has a score at or above the threshold of
\* its own class.
C25_PerClassThreshold ==
    onnx.by = "main" =>
        \A k \in 1..Len(onnx.dets) :
            /\ onnx.dets[k].class \in {0, 1}
            /\ onnx.dets[k].score >= ClassThreshold(onnx.dets[k].class)

\* C27: get_frame returns None exactly when no frame has been stored, and
\* otherwise a copy of the stored frame; what a caller draws on a frame it
\* was given never shows on the stored frame; a failed read leaves the
\* stored frame as it was.
C27_GetFrameCopies ==
    /\ [](camera.op = "get" =>
            /\ (camera.got = 0) <=> (camera._frame = 0)
            /\ camera.got # 0 =>
                   /\ camera.got # camera._frame
                   /\ camera.objs[camera.got] = camera.objs[camera._frame])
    /\ [](camera._frame # 0 => ~camera.objs[camera._frame].drawn)
    /\ [][camera'.op = "readfail" =>
            /\ camera'._frame = camera._frame
            /\ camera'.objs = camera.objs]_vars

\* A caller has drawn on the copy it was given of the stored frame.
C27_Witness ==
    /\ camera.op = "write"
    /\ camera._frame # 0
    /\ camera.objs[camera.got].id = camera.objs[camera._frame].id
    /\ camera.objs[camera.got].drawn

\* C29: stop() returns, after its join is over, with the backend released,
\* also when the capture thread has not ended; and a capture thread that
\* comes to its loop head with the flag cleared ends there.
C29_StopReturns ==
    /\ (camera.stop = "join") ~> (camera.stop = "returned")
    /\ [](camera.stop = "returned" => camera.released)
    /\ [][(camera.thread = "head" /\ ~camera._running
              /\ camera'.thread # "head") => camera'.thread = "exited"]_vars

\* stop() has returned and released the backend while the capture thread is
\* still inside a read.
C29_Witness ==
    /\ camera.stop = "returned"
    /\ camera.released
    /\ camera.thread = "reading"

\* C28: once cleanup has run, the session object is closed and the capture
\* backend is released.
C28_CleanupReleases ==
    boot.pc = "ended" =>
        /\ IF peer_connection = 0 THEN TRUE ELSE pcs[peer_connection].closed
        /\ camera.released

\* C30: a webrtc_offer received from the remote peer changes neither the
\* session object, the pending candidates, the restart budget nor any task,
\* and no answer and no offer is sent.
C30_OfferIgnored ==
    [][out'.msg = "webrtc_offer" =>
          /\ peer_connection' = peer_connection
          /\ pcs' = pcs
          /\ pending_remote_ice' = pending_remote_ice
          /\ user_stopped' = user_stopped
          /\ webrtc_restart_count' = webrtc_restart_count
          /\ last_restart_time' = last_restart_time
          /\ video_track' = video_track
          /\ tasks' = tasks
          /\ ~out'.offer
          /\ out'.answer = "-"
          /\ out'.request = "-"]_vars

\* An offer arrived while there were a session and pending candidates.
C30_Witness ==
    /\ out.msg = "webrtc_offer"
    /\ peer_connection # 0
    /\ pending_remote_ice # <<>>

C32_WindowResetsBudget ==
    (out.request # "-" /\ out.since >= RESTART_WINDOW) =>
        /\ webrtc_restart_count = 0
        /\ out.attempt
        /\ ~out.deferred

\* Such a request finds a count above 0.
C32_Witness ==
    /\ out.request # "-" /\ out.since >= RESTART_WINDOW
    /\ out.had > 0 /\ out.attempt

\* The negotiation state of the global session: Idle with no session or a
\* session that has no local offer, Negotiated once the answer is applied.
NegotiationIdle ==
    IF peer_connection = 0 THEN TRUE ELSE ~pcs[peer_connection].local

Negotiated ==
    IF peer_connection = 0 THEN FALSE
    ELSE /\ pcs[peer_connection].local /\ pcs[peer_connection].remote
         /\ pcs[peer_connection].sig = "stable"

\* C33: a well-formed answer received while the negotiation is Idle or
\* Negotiated leaves the session objects, the global session and the pending
\* buffer as they were.
C33_AnswerOutOfTurnIgnored ==
    [][(out'.msg = "webrtc_answer" /\ out'.arg = "ok"
            /\ (NegotiationIdle \/ Negotiated)) =>
          /\ pcs' = pcs
          /\ peer_connection' = peer_connection
          /\ pending_remote_ice' = pending_remote_ice]_vars

\* The global session has gathered its local candidates.
GatheringDone ==
    IF peer_connection = 0 THEN FALSE
    ELSE pcs[peer_connection].gathering = "complete"

C35_OtherDeviceStartStopIgnored ==
    [][(out'.msg \in {"start_webrtc", "stop_webrtc"} /\ out'.dev # device_id) =>
          /\ UNCHANGED <<user_stopped, peer_connection, pcs, video_track, tracks,
                         tasks, webrtc_restart_count, last_restart_time,
                         keepalive_task, detection_task, pending_remote_ice>>
          /\ out'.request = "-"
          /\ ~out'.offer]_vars

\* A start for another device arrives while the stream is stopped.
C35_Witness ==
    out.msg = "start_webrtc" /\ out.dev # device_id /\ user_stopped

\* C36: a capture_command for this device is answered by exactly one
\* capture_result, a success carrying an image URL or a failure carrying an
\* error; a capture_command for another device by none.
C36_OneCaptureResult ==
    out.msg = "capture_command" =>
        IF out.dev = device_id
        THEN /\ Len(out.results) = 1
             /\ \/ out.results[1].success /\ out.results[1].image_url # "-"
                \/ ~out.results[1].success /\ out.results[1].error # "-"
        ELSE out.results = <<>>

\* The command found the camera without a frame.
C36_Witness ==
    /\ out.msg = "capture_command" /\ out.dev = device_id
    /\ out.results = <<CaptureFailure("Failed to capture frame")>>

C39_OneKeepaliveOneStats ==
    /\ Cardinality(AliveTasks(monitors, "keepalive")) <= 1
    /\ Cardinality(AliveTasks(monitors, "stats")) <= 1

\* The capture threads that have passed the test of their loop (100) and
\* are in its body.
CaptureLoops ==
    (IF camera.thread \in {"reading", "sleeping"} THEN {0} ELSE {})
    \cup {k \in 1..Len(camera.others) : camera.others[k] \in {"reading", "sleeping"}}

\* C40: at most one capture loop runs per CameraManager instance after any
\* sequence of start() and stop() calls, a start() after a stop() whose
\* join timed out included.
C40_OneCaptureLoop == Cardinality(CaptureLoops) <= 1
====
